---- MODULE Spec2Model ----
(***************************************************************************)
(* Tiered range configuration of the Dropshipr store forms.                *)
(*                                                                         *)
(* The module models                                                       *)
(*   - the JavaScript string and number primitives the forms rely on       *)
(*     (parseFloat, String.trim, toUpperCase, Number.toString, the ||      *)
(*     default), over strings represented as sequences of characters;      *)
(*   - the two tier-list validators (MultiStepForm.jsx and the             *)
(*     PriceSettings component);                                           *)
(*   - the MultiStepForm component (store form with three tabs);           *)
(*   - the CreateStore / PriceSettings component (two-step store form).    *)
(***************************************************************************)
EXTENDS Integers, Sequences, FiniteSets, TLC

(***************************************************************************)
(* Strings.  A JavaScript string is a sequence of one-character strings.   *)
(***************************************************************************)
EmptyStr == << >>
S0 == <<"0">>
SMAX == <<"M", "A", "X">>
SNaN == <<"N", "a", "N">>

Digits == {"0", "1", "2", "3", "4", "5", "6", "7", "8", "9"}

DigitVal(c) ==
  CASE c = "0" -> 0 [] c = "1" -> 1 [] c = "2" -> 2 [] c = "3" -> 3
    [] c = "4" -> 4 [] c = "5" -> 5 [] c = "6" -> 6 [] c = "7" -> 7
    [] c = "8" -> 8 [] c = "9" -> 9

DigitChar(d) ==
  CASE d = 0 -> "0" [] d = 1 -> "1" [] d = 2 -> "2" [] d = 3 -> "3"
    [] d = 4 -> "4" [] d = 5 -> "5" [] d = 6 -> "6" [] d = 7 -> "7"
    [] d = 8 -> "8" [] d = 9 -> "9"

\* The white space the forms can contain: the blank.
IsSpace(c) == c = " "

RECURSIVE TrimLeft(_)
TrimLeft(s) ==
  IF s # << >> /\ IsSpace(Head(s)) THEN TrimLeft(Tail(s)) ELSE s

RECURSIVE TrimRight(_)
TrimRight(s) ==
  IF s # << >> /\ IsSpace(s[Len(s)]) THEN TrimRight(SubSeq(s, 1, Len(s) - 1)) ELSE s

\* String.prototype.trim
trim(s) == TrimRight(TrimLeft(s))

UpperChar(c) ==
  CASE c = "m" -> "M" [] c = "a" -> "A" [] c = "x" -> "X" [] c = "n" -> "N"
    [] OTHER -> c

\* String.prototype.toUpperCase, on the letters the model's inputs contain.
toUpperCase(s) == [i \in 1..Len(s) |-> UpperChar(s[i])]

\* s.replace(/[^0-9.]/g, ""): keep the digits and the dots.
RECURSIVE KeepNumeric(_)
KeepNumeric(s) ==
  IF s = << >> THEN << >>
  ELSE IF Head(s) \in Digits \cup {"."}
       THEN <<Head(s)>> \o KeepNumeric(Tail(s))
       ELSE KeepNumeric(Tail(s))

\* x || d on a string x: the empty string is falsy.
OrElse(s, d) == IF s = << >> THEN d ELSE s

(***************************************************************************)
(* Numbers.  A JavaScript number is NaN, Infinity, -Infinity (inf is 1 or   *)
(* -1) or a decimal with at most ten fractional digits, held as h          *)
(* hundredths plus t units of 1e-10                                        *)
(* (0 <= t < 10^8): its value is h / 100 + t * 1e-10.  The inputs of the   *)
(* model have at most ten fractional digits and no exponent, so parsing    *)
(* and the sums and differences taken below are exact in this form.        *)
(***************************************************************************)
TMod == 10000 * 10000

NaN == [nan |-> TRUE, inf |-> 0, h |-> 0, t |-> 0]
Num(h, t) == [nan |-> FALSE, inf |-> 0, h |-> h, t |-> t]
Zero == Num(0, 0)
Infinity == [nan |-> FALSE, inf |-> 1, h |-> 0, t |-> 0]

isFinite(x) == ~x.nan /\ x.inf = 0

\* a < b, false when either is NaN
NumLess(a, b) ==
  /\ ~a.nan /\ ~b.nan
  /\ \/ a.inf < b.inf
     \/ a.inf = 0 /\ b.inf = 0 /\ a.h < b.h
     \/ a.inf = 0 /\ b.inf = 0 /\ a.h = b.h /\ a.t < b.t

\* a === b on numbers: NaN equals nothing
NumEq(a, b) == ~a.nan /\ ~b.nan /\ a.inf = b.inf /\ a.h = b.h /\ a.t = b.t

\* a + 100
Plus100(a) == IF a.nan \/ a.inf # 0 THEN a ELSE Num(a.h + 10000, a.t)

\* Math.abs(a - b) > 1e-9 for a and b that are not NaN: 1e-9 is ten units of
\* 1e-10, and Infinity - Infinity is NaN.
AbsDiffExceedsEps(a, b) ==
  LET hi == IF NumLess(a, b) THEN b ELSE a
      lo == IF NumLess(a, b) THEN a ELSE b
      dh == hi.h - lo.h
  IN  IF a.inf # 0 \/ b.inf # 0 THEN a.inf # b.inf
      ELSE IF dh >= 2 THEN TRUE
      ELSE dh * TMod + hi.t - lo.t > 10

RECURSIVE TakeDigits(_)
TakeDigits(s) ==
  IF s # << >> /\ Head(s) \in Digits
  THEN <<Head(s)>> \o TakeDigits(Tail(s))
  ELSE << >>

RECURSIVE DigitsVal(_)
DigitsVal(ds) ==
  IF ds = << >> THEN 0
  ELSE DigitsVal(SubSeq(ds, 1, Len(ds) - 1)) * 10 + DigitVal(ds[Len(ds)])

\* The first n digits of ds, zero-padded on the right.
PadDigits(ds, n) == [i \in 1..n |-> IF i <= Len(ds) THEN ds[i] ELSE "0"]

SInfinity == <<"I", "n", "f", "i", "n", "i", "t", "y">>

\* The unsigned decimal literal at the start of s, or Infinity: NaN without
\* either.
ParseUnsigned(s) ==
  LET ip == TakeDigits(s)
      rest == SubSeq(s, Len(ip) + 1, Len(s))
      fp == IF rest # << >> /\ Head(rest) = "." THEN TakeDigits(Tail(rest)) ELSE << >>
      f10 == PadDigits(fp, 10)
  IN  IF Len(s) >= Len(SInfinity) /\ SubSeq(s, 1, Len(SInfinity)) = SInfinity THEN Infinity
      ELSE IF ip = << >> /\ fp = << >> THEN NaN
      ELSE Num(DigitsVal(ip) * 100 + DigitsVal(SubSeq(f10, 1, 2)),
               DigitsVal(SubSeq(f10, 3, 10)))

Negate(x) ==
  IF x.nan THEN NaN
  ELSE IF x.inf # 0 THEN [x EXCEPT !.inf = 0 - x.inf]
  ELSE IF x.t = 0 THEN Num(0 - x.h, 0)
  ELSE Num(0 - x.h - 1, TMod - x.t)

\* parseFloat(s): leading white space, an optional sign, a decimal literal.
parseFloat(s) ==
  LET u == TrimLeft(s)
  IN  IF u = << >> THEN NaN
      ELSE IF Head(u) = "-" THEN Negate(ParseUnsigned(Tail(u)))
      ELSE IF Head(u) = "+" THEN ParseUnsigned(Tail(u))
      ELSE ParseUnsigned(u)

RECURSIVE NatToDigits(_)
NatToDigits(n) ==
  IF n < 10 THEN <<DigitChar(n)>>
  ELSE NatToDigits(n \div 10) \o <<DigitChar(n % 10)>>

\* n as exactly w digits
RECURSIVE FixedDigits(_, _)
FixedDigits(n, w) ==
  IF w = 0 THEN << >>
  ELSE FixedDigits(n \div 10, w - 1) \o <<DigitChar(n % 10)>>

RECURSIVE StripZeros(_)
StripZeros(ds) ==
  IF ds # << >> /\ ds[Len(ds)] = "0" THEN StripZeros(SubSeq(ds, 1, Len(ds) - 1)) ELSE ds

\* Number.prototype.toString of a non-negative number or NaN
toString(x) ==
  IF x.nan THEN SNaN
  ELSE IF x.inf # 0 THEN SInfinity
  ELSE LET frac == StripZeros(FixedDigits(x.h % 100, 2) \o FixedDigits(x.t, 8))
       IN  NatToDigits(x.h \div 100) \o (IF frac = << >> THEN << >> ELSE <<".">> \o frac)

\* parseInt(s) of a vendor id string: the leading digits (NaN is -1 here; ids are positive).
parseInt(s) ==
  LET ds == TakeDigits(TrimLeft(s))
  IN  IF ds = << >> THEN -1 ELSE DigitsVal(ds)

(***************************************************************************)
(* The validators.                                                         *)
(***************************************************************************)
\* parseFloat(r.from || 0): the key sortRanges compares
FromKey(r) == parseFloat(OrElse(r.from, S0))

\* Stable insertion of r into the sorted list s: after every element whose
\* key is not greater.
RECURSIVE InsertSorted(_, _)
InsertSorted(s, r) ==
  IF s = << >> THEN <<r>>
  ELSE IF NumLess(FromKey(r), FromKey(s[Len(s)]))
       THEN InsertSorted(SubSeq(s, 1, Len(s) - 1), r) \o <<s[Len(s)]>>
       ELSE s \o <<r>>

RECURSIVE StableSort(_)
StableSort(s) ==
  IF s = << >> THEN << >>
  ELSE InsertSorted(StableSort(SubSeq(s, 1, Len(s) - 1)), s[Len(s)])

\* Every arrangement of the elements of s.
Arrangements(s) ==
  LET n == Len(s)
      Perms == {p \in [1..n -> 1..n] : \A i, j \in 1..n : p[i] = p[j] => i = j}
  IN  {[i \in 1..n |-> s[p[i]]] : p \in Perms}

\* sortRanges(ranges): the orders [...ranges].sort(cmp) may return, with
\* cmp(a, b) = FromKey(a) - FromKey(b).  Array.prototype.sort is stable, so
\* with comparable keys the order is unique.  A NaN key makes cmp return NaN,
\* which sort reads as 0; unless all other keys are equal cmp is then not a
\* consistent comparator and the order is implementation-defined.
sortRanges(ranges) ==
  LET n == Len(ranges)
      nans == {i \in 1..n : FromKey(ranges[i]).nan}
      fin == (1..n) \ nans
  IN  IF nans = {} THEN {StableSort(ranges)}
      ELSE IF \A i, j \in fin : NumEq(FromKey(ranges[i]), FromKey(ranges[j]))
           THEN {ranges}
           ELSE Arrangements(ranges)

\* A validator without the loop over adjacent tiers: it looks at the first
\* lower bound and the last upper bound only.
EndsOnlyContiguousIn(ranges, sr) ==
  IF Len(ranges) = 0 THEN TRUE
  ELSE LET start == parseFloat(OrElse(sr[1].from, S0))
       IN  IF ~isFinite(start) \/ ~NumEq(start, Zero) THEN FALSE
           ELSE toUpperCase(trim(OrElse(sr[Len(sr)].to, SMAX))) = SMAX

\* MultiStepForm.jsx rangesAreContiguous, given the order sr that
\* sortRanges(ranges) returned.
rangesAreContiguousIn(ranges, sr) ==
  IF Len(ranges) = 0 THEN TRUE
  ELSE LET start == parseFloat(OrElse(sr[1].from, S0))
       IN  IF ~isFinite(start) \/ ~NumEq(start, Zero) THEN FALSE
           ELSE IF \E i \in 1..(Len(sr) - 1) :
                     LET a == parseFloat(sr[i].to)
                         b == parseFloat(sr[i + 1].from)
                     IN  ~isFinite(a) \/ ~isFinite(b) \/ AbsDiffExceedsEps(a, b)
                THEN FALSE
                ELSE toUpperCase(trim(OrElse(sr[Len(sr)].to, SMAX))) = SMAX

\* The results rangesAreContiguous(ranges) can return (MultiStepForm.jsx).
rangesAreContiguous(ranges) ==
  {rangesAreContiguousIn(ranges, sr) : sr \in sortRanges(ranges)}

\* PriceSettings rangesAreContiguous, given the order sr.
psRangesAreContiguousIn(ranges, sr) ==
  IF Len(ranges) = 0 THEN TRUE
  ELSE LET firstFrom == parseFloat(OrElse(sr[1].from, S0))
       IN  IF ~NumEq(firstFrom, Zero) THEN FALSE
           ELSE IF \E i \in 1..(Len(sr) - 1) : sr[i].to # sr[i + 1].from
                THEN FALSE
                ELSE OrElse(sr[Len(sr)].to, SMAX) = SMAX

\* The results rangesAreContiguous(ranges) can return (PriceSettings).
psRangesAreContiguous(ranges) ==
  {psRangesAreContiguousIn(ranges, sr) : sr \in sortRanges(ranges)}

(***************************************************************************)
(* The range model of the specification (section 4.1), on a form tier:     *)
(* the bounds are decoded as the serialization adapter decodes them.       *)
(***************************************************************************)
\* parseFloat(s) || 0
ParseOrZero(s) == LET x == parseFloat(s) IN IF x.nan THEN Zero ELSE x

\* the upper bound token is the open-ended sentinel
IsOpen(to) == toUpperCase(trim(OrElse(to, SMAX))) = SMAX

\* a <= b on finite numbers
NumLeq(a, b) == NumLess(a, b) \/ NumEq(a, b)

\* contains(tier, value)
contains(r, x) ==
  /\ NumLeq(ParseOrZero(r.from), x)
  /\ IsOpen(r.to) \/ NumLess(x, ParseOrZero(r.to))

(***************************************************************************)
(* The conversions of services/api.js between the form's strings and the   *)
(* backend's store data.                                                   *)
(***************************************************************************)
\* x || 0 on numbers: NaN and 0 are falsy
OrZero(x) == IF x.nan \/ NumEq(x, Zero) THEN Zero ELSE x

\* parseInt(s) of an amount: leading white space, an optional sign, the
\* leading decimal digits; NaN without a digit.
parseIntAmount(s) ==
  LET u == TrimLeft(s)
      signed == u # << >> /\ Head(u) \in {"-", "+"}
      ds == TakeDigits(IF signed THEN Tail(u) ELSE u)
  IN  IF ds = << >> THEN NaN
      ELSE IF Head(u) = "-" THEN Negate(Num(DigitsVal(ds) * 100, 0))
      ELSE Num(DigitsVal(ds) * 100, 0)

\* x * 100
Times100(x) ==
  IF x.nan \/ x.inf # 0 THEN x
  ELSE Num(x.h * 100 + (x.t * 100) \div TMod, (x.t * 100) % TMod)

\* x / 100 of a whole number x
Div100(x) ==
  IF x.nan \/ x.inf # 0 THEN x
  ELSE Num(x.h \div 100, (x.h % 100) * 1000000)

\* One element of price_ranges (api.js 89-94).
ApiPriceRange(range) ==
  [from_value |-> OrZero(parseFloat(range.from)),
   to_value |-> OrElse(range.to, SMAX),
   margin_percentage |-> OrZero(parseFloat(range.margin)),
   minimum_margin_cents |-> Times100(OrZero(parseIntAmount(range.minimumMargin)))]

\* One element of inventory_ranges (api.js 99-102).
ApiInventoryRange(range) ==
  [from_value |-> OrZero(parseFloat(range.from)),
   to_value |-> OrElse(range.to, SMAX),
   multiplier |-> OrZero(parseFloat(range.multipliedWith))]

transformStoreDataForAPI(info, priceSettings, inventorySettings) ==
  [name |-> info.storeName,
   marketplace_id |-> parseInt(info.marketplace),
   api_key_enc |-> OrElse(info.apiKey, EmptyStr),
   price_settings_by_vendor |->
     [i \in 1..Len(priceSettings) |->
        LET v == priceSettings[i]
        IN  [vendor_id |-> v.vendorId,
             purchase_tax_percentage |-> OrZero(parseFloat(v.purchaseTax)),
             marketplace_fees_percentage |-> OrZero(parseFloat(v.marketplaceFees)),
             price_ranges |->
               [j \in 1..Len(v.priceRanges) |-> ApiPriceRange(v.priceRanges[j])]]],
   inventory_settings_by_vendor |->
     [i \in 1..Len(inventorySettings) |->
        LET v == inventorySettings[i]
        IN  [vendor_id |-> v.vendorId,
             inventory_ranges |->
               [j \in 1..Len(v.priceRanges) |-> ApiInventoryRange(v.priceRanges[j])]]]]

\* One element of priceRanges (api.js 124-129).
FrontendPriceRange(range) ==
  [from |-> toString(range.from_value),
   to |-> range.to_value,
   margin |-> toString(range.margin_percentage),
   minimumMargin |-> toString(Div100(OrZero(range.minimum_margin_cents)))]

\* One element of an inventory vendor's priceRanges (api.js 134-138).
FrontendInventoryRange(range) ==
  [from |-> toString(range.from_value),
   to |-> range.to_value,
   multipliedWith |-> toString(range.multiplier)]

transformStoreDataForFrontend(apiStoreData) ==
  [id |-> apiStoreData.id,
   name |-> apiStoreData.name,
   marketplace |-> apiStoreData.marketplace.name,
   marketplace_id |-> apiStoreData.marketplace.id,
   is_active |-> apiStoreData.is_active,
   created_at |-> apiStoreData.created_at,
   storeInfo |-> [storeName |-> apiStoreData.name,
                  marketplace |-> NatToDigits(apiStoreData.marketplace.id),
                  apiKey |-> apiStoreData.api_key_enc],
   priceSettingsByVendor |->
     [i \in 1..Len(apiStoreData.price_settings_by_vendor) |->
        LET st == apiStoreData.price_settings_by_vendor[i]
        IN  [vendorId |-> st.vendor_id,
             purchaseTax |-> toString(st.purchase_tax_percentage),
             marketplaceFees |-> toString(st.marketplace_fees_percentage),
             priceRanges |->
               [j \in 1..Len(st.price_ranges) |-> FrontendPriceRange(st.price_ranges[j])]]],
   inventorySettingsByVendor |->
     [i \in 1..Len(apiStoreData.inventory_settings_by_vendor) |->
        LET st == apiStoreData.inventory_settings_by_vendor[i]
        IN  [vendorId |-> st.vendor_id,
             priceRanges |->
               [j \in 1..Len(st.inventory_ranges) |->
                  FrontendInventoryRange(st.inventory_ranges[j])]]]]

(***************************************************************************)
(* State.                                                                  *)
(***************************************************************************)
VARIABLES
  \* MultiStepForm (CreateStoreForm) component state
  activeStep,                 \* "store-info", "price-settings", "inventory-settings"
  storeInfo,                  \* [storeName, marketplace, apiKey]
  priceSettingsByVendor,      \* list of [vendorId, purchaseTax, marketplaceFees, priceRanges]
  inventorySettingsByVendor,  \* list of [vendorId, priceRanges]
  pricePendingVendor,         \* the vendor id string chosen in the price tab's select
  inventoryPendingVendor,     \* the same for the inventory tab
  duplicateModal,             \* [open, type, fromVendorId, toVendorId, copyFees]
  loading,
  isEditMode,
  storeId,                    \* << >> for null, <<id>> otherwise
  \* the component's surroundings
  rendered,                   \* the state the mounted handlers closed over
  toast,                      \* the last toast shown: [kind, msg]
  request,                    \* the createStore / updateStore call: [state, method, ...]
  page,                       \* the route shown: "/create-store" or "/settings"
  \* validator runs
  vTiers,     \* the tier list handed to rangesAreContiguous
  vWho,       \* "none", or the component whose validator ran
  vOrder,     \* the order sortRanges returned
  vResult,    \* the value rangesAreContiguous returned
  \* CreateStore.jsx and its PriceSettings panel; the wizard keeps its store
  \* fields in storeInfo (formData) and its rule sets in priceSettingsByVendor
  \* and inventorySettingsByVendor
  currentStep,      \* 1 (store details) or 2 (PriceSettings)
  activeTab,        \* "price" or "inventory"
  pendingVendorId,  \* the vendor id string chosen in the panel's select
  \* runs of the conversions of services/api.js
  tStored,    \* store data as the backend returns it (apiStoreData)
  tForm,      \* [storeInfo, priceSettingsByVendor, inventorySettingsByVendor] of a form
  tSent,      \* the store data transformStoreDataForAPI returned
  tStage,     \* "idle", "form", "sent", "stored", "loaded" or "resent"
  \* runs of the evaluator (specification, section 4.3)
  eRuleSet,   \* the validated price rule set handed to evaluatePrice
  eArgs,      \* [vendorCost, purchaseTaxPercent, marketplaceFeesPercent]
  eResult,    \* NoData, or what evaluatePrice returned
  \* StoreListingPage (settings.jsx)
  stores,       \* the list shown: a sequence of [id, is_active]
  togglingIds,  \* the ids whose switch shows the spinner
  deletingIds,  \* the ids whose delete button shows the spinner
  calls,        \* setStoreActive / deleteStore calls awaited, each with the
                \* stores its handler closed over
  outcomes,     \* per store id, the last settled toggle and whether a delete succeeded
  \* the bulk-upload page (ProductMappingTableComponent.jsx)
  uploads,           \* the ids of the uploads listed
  deletingUploadId,  \* 0 for null, or the id whose delete button shows the spinner
  deleteModal,       \* [isOpen, upload]: upload is 0 for null or the id asked about
  deletes            \* the DELETE requests awaited: the uploadId of each

fvars == <<activeStep, storeInfo, priceSettingsByVendor, inventorySettingsByVendor,
           pricePendingVendor, inventoryPendingVendor, duplicateModal, loading,
           isEditMode, storeId, toast, request, page>>

vvars == <<vTiers, vWho, vOrder, vResult>>

pvars == <<currentStep, activeTab, pendingVendorId>>

tvars == <<tStored, tForm, tSent, tStage>>

evars == <<eRuleSet, eArgs, eResult>>

\* the state of the machines that are not the store form
svars == <<stores, togglingIds, deletingIds, calls, outcomes>>

uvars == <<uploads, deletingUploadId, deleteModal, deletes>>

ovars == <<evars, svars, uvars>>

vars == <<fvars, rendered, vvars, pvars, tvars, ovars>>

NoToast == [kind |-> "none", msg |-> ""]
ErrorToast(m) == [kind |-> "error", msg |-> m]
SuccessToast(m) == [kind |-> "success", msg |-> m]

NoRequest == [state |-> "none"]

\* The state a handler of the current render closes over.
Closure ==
  [ activeStep |-> activeStep, storeInfo |-> storeInfo,
    priceSettingsByVendor |-> priceSettingsByVendor,
    inventorySettingsByVendor |-> inventorySettingsByVendor,
    pricePendingVendor |-> pricePendingVendor,
    inventoryPendingVendor |-> inventoryPendingVendor,
    duplicateModal |-> duplicateModal, loading |-> loading,
    isEditMode |-> isEditMode, storeId |-> storeId ]

\* The vendors getVendors returned: their ids.
vendors == {1, 2}

\* v.id.toString()
IdStr(id) == NatToDigits(id)

ClosedModal ==
  [open |-> FALSE, type |-> "null", fromVendorId |-> EmptyStr, toVendorId |-> EmptyStr,
   copyFees |-> TRUE]

\* The form as mounted for a new store.
FormCreate ==
  /\ activeStep = "store-info"
  /\ storeInfo = [storeName |-> EmptyStr, marketplace |-> EmptyStr, apiKey |-> EmptyStr]
  /\ priceSettingsByVendor = << >>
  /\ inventorySettingsByVendor = << >>
  /\ pricePendingVendor = EmptyStr
  /\ inventoryPendingVendor = EmptyStr
  /\ duplicateModal = ClosedModal
  /\ loading = FALSE
  /\ isEditMode = FALSE
  /\ storeId = << >>
  /\ toast = NoToast
  /\ request = NoRequest
  /\ page = "/create-store"
  /\ rendered = Closure

\* The wizard of CreateStore.jsx as mounted for a new store.
WizardIdle ==
  /\ currentStep = 1
  /\ activeTab = "price"
  /\ pendingVendorId = EmptyStr

NoData == [none |-> TRUE]

EvaluatorIdle ==
  /\ eRuleSet = << >>
  /\ eArgs = NoData
  /\ eResult = NoData

\* StoreListingPage is not mounted.
StoresIdle ==
  /\ stores = << >>
  /\ togglingIds = {}
  /\ deletingIds = {}
  /\ calls = << >>
  /\ outcomes = << >>

\* The bulk-upload page is not mounted.
UploadsIdle ==
  /\ uploads = << >>
  /\ deletingUploadId = 0
  /\ deleteModal = [isOpen |-> FALSE, upload |-> 0]
  /\ deletes = << >>

OthersIdle == EvaluatorIdle /\ StoresIdle /\ UploadsIdle

TransformIdle ==
  /\ tStored = NoData
  /\ tForm = NoData
  /\ tSent = NoData
  /\ tStage = "idle"

ValidatorIdle ==
  /\ vTiers = << >>
  /\ vWho = "none"
  /\ vOrder = << >>
  /\ vResult = FALSE

(***************************************************************************)
(* Validator runs: rangesAreContiguous applied to a bounded tier list.     *)
(***************************************************************************)
MaxTiers == 3

S1 == <<"1">>
SNeg1 == <<"-", "1">>
S1eps == <<"1", ".", "0", "0", "0", "0", "0", "0", "0", "0", "0", "1">>
Smax == <<"m", "a", "x">>

Tier(f, t) == [from |-> f, to |-> t]

\* The tiers of the runs: the well-formed shapes over the bounds 0 and 1, and
\* one tier for each malformed shape the forms can hold (a zero-width tier, a
\* lower bound 1e-10 above 1, an empty bound, a lower-case sentinel, the
\* sentinel as a lower bound, a negative bound).
TierInputs ==
  { Tier(S0, S1), Tier(S0, SMAX), Tier(S1, SMAX), Tier(S1, S1),
    Tier(S0, S0), Tier(S1eps, SMAX), Tier(EmptyStr, SMAX), Tier(S0, EmptyStr),
    Tier(S1, Smax), Tier(SMAX, SMAX), Tier(SMAX, SNeg1), Tier(SNeg1, SMAX) }

TierLists == UNION {[1..n -> TierInputs] : n \in 0..MaxTiers}

InitValidator ==
  /\ OthersIdle
  /\ FormCreate
  /\ WizardIdle
  /\ TransformIdle
  /\ vTiers \in TierLists
  /\ vWho = "none"
  /\ vOrder = << >>
  /\ vResult = FALSE

\* rangesAreContiguous(vTiers) of MultiStepForm.jsx
ValidateMultiStepForm ==
  /\ vWho = "none"
  /\ \E sr \in sortRanges(vTiers) :
       /\ vOrder' = sr
       /\ vResult' = rangesAreContiguousIn(vTiers, sr)
  /\ vWho' = "MultiStepForm"
  /\ UNCHANGED <<vTiers, fvars, rendered, pvars, tvars, ovars>>

\* rangesAreContiguous(vTiers) of PriceSettings
ValidatePriceSettings ==
  /\ vWho = "none"
  /\ \E sr \in sortRanges(vTiers) :
       /\ vOrder' = sr
       /\ vResult' = psRangesAreContiguousIn(vTiers, sr)
  /\ vWho' = "PriceSettings"
  /\ UNCHANGED <<vTiers, fvars, rendered, pvars, tvars, ovars>>

NextValidator == ValidateMultiStepForm \/ ValidatePriceSettings

SpecValidator == InitValidator /\ [][NextValidator]_vars

(***************************************************************************)
(* Runs of the conversions: a form's data is converted for the backend     *)
(* (handleSubmit, MultiStepForm.jsx 212), or a stored store is converted   *)
(* for the form (settings.jsx 513) and converted back when it is saved.    *)
(***************************************************************************)
MaxSentTiers == 2

S12_50 == <<"1", "2", ".", "5", "0">>
S0_99 == <<"0", ".", "9", "9">>
S100 == <<"1", "0", "0">>
Sabc == <<"a", "b", "c">>
SDot == <<".">>
SMAXSpaced == <<" ", "M", "A", "X", " ">>

\* The upper bounds of the runs: the sentinel as the forms write it, in lower
\* case, padded, left empty, and a number.
ToInputs == {SMAX, Smax, SMAXSpaced, EmptyStr, S100}

PriceTierInputs ==
  [from : {EmptyStr, S12_50}, to : ToInputs, margin : {Sabc},
   minimumMargin : {EmptyStr, S12_50, S0_99}]

InventoryTierInputs ==
  [from : {S0, SDot}, to : {SMAX, S100}, multipliedWith : {EmptyStr, S1, SInfinity}]

FeeInputs == {EmptyStr, S12_50, SInfinity}

TiersOf(inputs) == UNION {[1..n -> inputs] : n \in 0..MaxSentTiers}

StoreInfoInput == [storeName |-> <<"A">>, marketplace |-> S1, apiKey |-> EmptyStr]

PlainPriceVendor ==
  [vendorId |-> 2, purchaseTax |-> S0, marketplaceFees |-> S0,
   priceRanges |-> <<[from |-> S0, to |-> SMAX, margin |-> S1, minimumMargin |-> S1]>>]

PlainInventoryVendor ==
  [vendorId |-> 2, priceRanges |-> <<[from |-> S0, to |-> SMAX, multipliedWith |-> S1]>>]

\* No vendor, vendor 1 with the tiers and fees of the run, or vendor 1 followed
\* by a second vendor.
PriceVendorLists(tierLists) ==
  {<< >>} \cup
  UNION {{<<v>>, <<v, PlainPriceVendor>>} :
           v \in [vendorId : {1}, purchaseTax : FeeInputs,
                  marketplaceFees : {EmptyStr, S12_50}, priceRanges : tierLists]}

InventoryVendorLists(tierLists) ==
  {<< >>} \cup
  UNION {{<<v>>, <<v, PlainInventoryVendor>>} :
           v \in [vendorId : {1}, priceRanges : tierLists]}

\* Forms whose price settings vary, and forms whose inventory settings vary.
FormInputs(priceTierLists, inventoryTierLists) ==
  [storeInfo : {StoreInfoInput}, priceSettingsByVendor : PriceVendorLists(priceTierLists),
   inventorySettingsByVendor : {<< >>}]
  \cup
  [storeInfo : {StoreInfoInput}, priceSettingsByVendor : {<<PlainPriceVendor>>},
   inventorySettingsByVendor : InventoryVendorLists(inventoryTierLists)]

\* Stored amounts: 0, 12.5 and 10.55; stored minimum margins: 0, 99, 1200 and
\* 1250 cents.
StoredPriceRanges ==
  [from_value : {Zero, Num(1250, 0)}, to_value : {SMAX, S100},
   margin_percentage : {Num(1055, 0)},
   minimum_margin_cents : {Zero, Num(9900, 0), Num(120000, 0), Num(125000, 0)}]

StoredInputs(tierLists) ==
  [id : {1}, name : {<<"A">>}, marketplace : {[id |-> 1, name |-> <<"M">>]},
   is_active : {TRUE}, created_at : {EmptyStr}, api_key_enc : {<<"k">>},
   price_settings_by_vendor :
     {<< >>} \cup
     {<<st>> : st \in [vendor_id : {1}, purchase_tax_percentage : {Zero, Num(1250, 0)},
                       marketplace_fees_percentage : {Zero, Num(1055, 0)},
                       price_ranges : tierLists]},
   inventory_settings_by_vendor :
     {<< >>, <<[vendor_id |-> 2,
                inventory_ranges |-> <<[from_value |-> Zero, to_value |-> SMAX,
                                        multiplier |-> Num(50, 0)]>>]>>}]

\* Either a form was filled in, or a stored store is about to be edited.
InitTransform ==
  /\ OthersIdle
  /\ FormCreate
  /\ WizardIdle
  /\ ValidatorIdle
  /\ tSent = NoData
  /\ \/ /\ tStage = "form"
        /\ tForm \in FormInputs(TiersOf(PriceTierInputs), TiersOf(InventoryTierInputs))
        /\ tStored = NoData
     \/ /\ tStage = "stored"
        /\ tStored \in StoredInputs(TiersOf(StoredPriceRanges))
        /\ tForm = NoData

\* const storeData = transformStoreDataForAPI(storeInfo, priceSettingsByVendor,
\*                                            inventorySettingsByVendor)
TransformForAPI ==
  /\ tStage \in {"form", "loaded"}
  /\ tSent' = transformStoreDataForAPI(tForm.storeInfo, tForm.priceSettingsByVendor,
                                       tForm.inventorySettingsByVendor)
  /\ tStage' = IF tStage = "form" THEN "sent" ELSE "resent"
  /\ UNCHANGED <<tStored, tForm, fvars, rendered, vvars, pvars, ovars>>

\* const transformed = transformStoreDataForFrontend(full): the form is opened
\* on the store's storeInfo and settings.
TransformForFrontend ==
  /\ tStage = "stored"
  /\ LET transformed == transformStoreDataForFrontend(tStored)
     IN  tForm' = [storeInfo |-> transformed.storeInfo,
                   priceSettingsByVendor |-> transformed.priceSettingsByVendor,
                   inventorySettingsByVendor |-> transformed.inventorySettingsByVendor]
  /\ tStage' = "loaded"
  /\ UNCHANGED <<tStored, tSent, fvars, rendered, vvars, pvars, ovars>>

NextTransform == TransformForAPI \/ TransformForFrontend

SpecTransform == InitTransform /\ [][NextTransform]_vars

(***************************************************************************)
(* The price evaluator of the specification (section 4.3).  Amounts are     *)
(* exact: vendorCost, the tier bounds and the sell price are in minor       *)
(* units (cents), costWithTax and the candidate in hundredths of a minor    *)
(* unit, the percentages are whole numbers.                                 *)
(***************************************************************************)
OPEN == -1

\* round-half-up of n / d, for n >= 0 and d > 0
RoundHalfUp(n, d) == (2 * n + d) \div (2 * d)

\* t.contains(vendorCost)
tierContains(t, x) ==
  /\ t.lowerBound <= x
  /\ t.upperBound = OPEN \/ x < t.upperBound

\* costWithTax = vendorCost * (1 + purchaseTaxPercent/100), in hundredths of a
\* minor unit
costWithTax(vendorCost, purchaseTaxPercent) == vendorCost * (100 + purchaseTaxPercent)

\* evaluatePrice(ruleSet, vendorCost, purchaseTaxPercent, marketplaceFeesPercent)
evaluatePrice(ruleSet, vendorCost, purchaseTaxPercent, marketplaceFeesPercent) ==
  LET matching == {i \in 1..Len(ruleSet) : tierContains(ruleSet[i], vendorCost)}
  IN  IF matching = {}
      THEN [error |-> "UnreachableTierError"]
      ELSE
        LET t == ruleSet[CHOOSE i \in matching : \A j \in matching : i <= j]
            cost == costWithTax(vendorCost, purchaseTaxPercent)
            divisor == 100 - (marketplaceFeesPercent + t.marginPercent)
        IN  IF divisor <= 0
            THEN [error |-> "InfeasibleMarginError"]
            ELSE
              \* candidate = cost * 100 / divisor; candidate - cost =
              \* cost * (100 - divisor) / divisor, rounded to minor units
              LET profitMinorUnits == RoundHalfUp(cost * (100 - divisor), divisor * 100)
                  floored == profitMinorUnits < t.minimumMarginMinorUnits
                  sellPrice == IF floored
                               THEN RoundHalfUp(cost + t.minimumMarginMinorUnits * 100, 100)
                               ELSE RoundHalfUp(cost * 100, divisor * 100)
              IN  [error |-> "none", tier |-> t, costWithTax |-> cost,
                   profitMinorUnits |-> profitMinorUnits, floored |-> floored,
                   sellPrice |-> sellPrice]

\* The margins and floors of the first tier, the costs and the percentages the
\* evaluator is run on.
EvalMargins == {0, 5, 20, 95}
EvalFloors == {0, 500, 1500}
EvalCosts == {0, 30, 33, 4000, 5000, 7000}
EvalTaxes == {0, 1, 8}
EvalFees == {0, 10}

\* validated rule sets: [0, 50.00) and [50.00, OPEN)
EvalRuleSets(margins, floors) ==
  {<<[lowerBound |-> 0, upperBound |-> 5000, marginPercent |-> m,
      minimumMarginMinorUnits |-> f],
     [lowerBound |-> 5000, upperBound |-> OPEN, marginPercent |-> 15,
      minimumMarginMinorUnits |-> 1000]>> : m \in margins, f \in floors}

InitEvaluator ==
  /\ FormCreate
  /\ WizardIdle
  /\ ValidatorIdle
  /\ TransformIdle
  /\ StoresIdle
  /\ UploadsIdle
  /\ eRuleSet \in EvalRuleSets(EvalMargins, EvalFloors)
  /\ eArgs \in [vendorCost : EvalCosts, purchaseTaxPercent : EvalTaxes,
                marketplaceFeesPercent : EvalFees]
  /\ eResult = NoData

Evaluate ==
  /\ eResult = NoData
  /\ eResult' = evaluatePrice(eRuleSet, eArgs.vendorCost, eArgs.purchaseTaxPercent,
                              eArgs.marketplaceFeesPercent)
  /\ UNCHANGED <<eRuleSet, eArgs, fvars, rendered, vvars, pvars, tvars, svars, uvars>>

NextEvaluator == Evaluate

SpecEvaluator == InitEvaluator /\ [][NextEvaluator]_vars

(***************************************************************************)
(* settings.jsx: the store list.  A handler closes over the stores of the   *)
(* render it was mounted by; what it does after its await runs in one task. *)
(* The backend answers setStoreActive with the store in the state asked     *)
(* for.                                                                     *)
(***************************************************************************)
MaxStores == 2

StoreIds == 1..MaxStores

\* no toggle settled, no delete succeeded
NoOutcome == [toggled |-> FALSE, is_active |-> FALSE, deleted |-> FALSE]

\* The page after fetchStores resolved with the stores of StoreIds, all active.
InitStores ==
  /\ FormCreate
  /\ WizardIdle
  /\ ValidatorIdle
  /\ TransformIdle
  /\ EvaluatorIdle
  /\ UploadsIdle
  /\ stores = [i \in StoreIds |-> [id |-> i, is_active |-> TRUE]]
  /\ togglingIds = {}
  /\ deletingIds = {}
  /\ calls = << >>
  /\ outcomes = [i \in StoreIds |-> NoOutcome]

\* controls that are never disabled
ControlsNeverDisabled(id) == FALSE

\* disabled={togglingIds.has(store.id) || deletingIds.has(store.id)} of the
\* switch and of the edit, delete and duplicate buttons
ControlsDisabled(id) == id \in togglingIds \/ id \in deletingIds

\* the row of store id is in the table
RowShown(id) == \E i \in 1..Len(stores) : stores[i].id = id

\* the sequence without its element at index k
WithoutCall(k) == [i \in 1..(Len(calls) - 1) |-> IF i < k THEN calls[i] ELSE calls[i + 1]]

\* handleToggleActive(id, nextActive) up to the await: the switch of a row
\* hands over the opposite of what it shows.
handleToggleActive(id) ==
  /\ RowShown(id)
  /\ ~ControlsDisabled(id)
  /\ \E i \in 1..Len(stores) :
       /\ stores[i].id = id
       /\ calls' = Append(calls, [kind |-> "setStoreActive", id |-> id,
                                  nextActive |-> ~stores[i].is_active,
                                  stores |-> stores])
  /\ togglingIds' = togglingIds \cup {id}
  /\ UNCHANGED <<stores, deletingIds, outcomes>>
  /\ UNCHANGED <<fvars, rendered, vvars, pvars, tvars, evars, uvars>>

\* handleToggleActive after the await: setStoreActive resolved.
toggleResolved(k) ==
  /\ k \in 1..Len(calls)
  /\ calls[k].kind = "setStoreActive"
  /\ LET id == calls[k].id
         updatedStore == [id |-> id, is_active |-> calls[k].nextActive]
         closed == calls[k].stores
     IN  /\ stores' = [i \in 1..Len(closed) |->
                         IF closed[i].id = id THEN updatedStore ELSE closed[i]]
         /\ togglingIds' = togglingIds \ {id}
         /\ outcomes' = [outcomes EXCEPT ![id].toggled = TRUE,
                                         ![id].is_active = updatedStore.is_active]
  /\ calls' = WithoutCall(k)
  /\ UNCHANGED deletingIds
  /\ UNCHANGED <<fvars, rendered, vvars, pvars, tvars, evars, uvars>>

\* handleToggleActive after the await: setStoreActive rejected.
toggleRejected(k) ==
  /\ k \in 1..Len(calls)
  /\ calls[k].kind = "setStoreActive"
  /\ togglingIds' = togglingIds \ {calls[k].id}
  /\ calls' = WithoutCall(k)
  /\ UNCHANGED <<stores, deletingIds, outcomes>>
  /\ UNCHANGED <<fvars, rendered, vvars, pvars, tvars, evars, uvars>>

\* handleDeleteStore(id) up to the await.
handleDeleteStore(id) ==
  /\ RowShown(id)
  /\ ~ControlsDisabled(id)
  /\ calls' = Append(calls, [kind |-> "deleteStore", id |-> id, nextActive |-> FALSE,
                             stores |-> stores])
  /\ deletingIds' = deletingIds \cup {id}
  /\ UNCHANGED <<stores, togglingIds, outcomes>>
  /\ UNCHANGED <<fvars, rendered, vvars, pvars, tvars, evars, uvars>>

\* handleDeleteStore after the await: deleteStore resolved.
deleteResolved(k) ==
  /\ k \in 1..Len(calls)
  /\ calls[k].kind = "deleteStore"
  /\ stores' = SelectSeq(calls[k].stores, LAMBDA store : store.id # calls[k].id)
  /\ deletingIds' = deletingIds \ {calls[k].id}
  /\ outcomes' = [outcomes EXCEPT ![calls[k].id].deleted = TRUE]
  /\ calls' = WithoutCall(k)
  /\ UNCHANGED togglingIds
  /\ UNCHANGED <<fvars, rendered, vvars, pvars, tvars, evars, uvars>>

\* handleDeleteStore after the await: deleteStore rejected.
deleteRejected(k) ==
  /\ k \in 1..Len(calls)
  /\ calls[k].kind = "deleteStore"
  /\ deletingIds' = deletingIds \ {calls[k].id}
  /\ calls' = WithoutCall(k)
  /\ UNCHANGED <<stores, togglingIds, outcomes>>
  /\ UNCHANGED <<fvars, rendered, vvars, pvars, tvars, evars, uvars>>

NextStores ==
  \/ \E id \in StoreIds : handleToggleActive(id)
  \/ \E k \in 1..MaxStores : toggleResolved(k)
  \/ \E k \in 1..MaxStores : toggleRejected(k)
  \/ \E id \in StoreIds : handleDeleteStore(id)
  \/ \E k \in 1..MaxStores : deleteResolved(k)
  \/ \E k \in 1..MaxStores : deleteRejected(k)

SpecStores == InitStores /\ [][NextStores]_vars

(***************************************************************************)
(* ProductMappingTableComponent.jsx: deleting an upload.  The page keeps    *)
(* one deletingUploadId; the upload asked about is kept in deleteModal.     *)
(***************************************************************************)
MaxUploads == 3
MaxDeletes == 3

UploadIds == 1..MaxUploads

\* The page after fetchUploads resolved with the uploads of UploadIds.
InitUploads ==
  /\ FormCreate
  /\ WizardIdle
  /\ ValidatorIdle
  /\ TransformIdle
  /\ EvaluatorIdle
  /\ StoresIdle
  /\ uploads = [i \in UploadIds |-> i]
  /\ deletingUploadId = 0
  /\ deleteModal = [isOpen |-> FALSE, upload |-> 0]
  /\ deletes = << >>

\* the row of the upload is in the table
UploadShown(id) == \E i \in 1..Len(uploads) : uploads[i] = id

\* disabled={deletingUploadId === row.id}
DeleteDisabled(id) == deletingUploadId = id

\* the requests without the one at index k
WithoutDelete(k) ==
  [i \in 1..(Len(deletes) - 1) |-> IF i < k THEN deletes[i] ELSE deletes[i + 1]]

\* The delete button of a row; the modal covers the table while it is open.
openDeleteModal(id) ==
  /\ UploadShown(id)
  /\ ~deleteModal.isOpen
  /\ ~DeleteDisabled(id)
  /\ deleteModal' = [isOpen |-> TRUE, upload |-> id]
  /\ UNCHANGED <<uploads, deletingUploadId, deletes>>
  /\ UNCHANGED <<fvars, rendered, vvars, pvars, tvars, evars, svars>>

closeDeleteModal ==
  /\ deleteModal.isOpen
  /\ deleteModal' = [isOpen |-> FALSE, upload |-> 0]
  /\ UNCHANGED <<uploads, deletingUploadId, deletes>>
  /\ UNCHANGED <<fvars, rendered, vvars, pvars, tvars, evars, svars>>

\* confirmDelete up to the await of the DELETE request.
confirmDelete ==
  /\ deleteModal.isOpen
  /\ Len(deletes) < MaxDeletes
  /\ deletingUploadId' = deleteModal.upload
  /\ deleteModal' = [isOpen |-> FALSE, upload |-> 0]
  /\ deletes' = Append(deletes, deleteModal.upload)
  /\ UNCHANGED uploads
  /\ UNCHANGED <<fvars, rendered, vvars, pvars, tvars, evars, svars>>

\* confirmDelete after the awaits: result.success.
uploadDeleted(k) ==
  /\ k \in 1..Len(deletes)
  /\ uploads' = SelectSeq(uploads, LAMBDA upload : upload # deletes[k])
  /\ deletingUploadId' = 0
  /\ deletes' = WithoutDelete(k)
  /\ UNCHANGED deleteModal
  /\ UNCHANGED <<fvars, rendered, vvars, pvars, tvars, evars, svars>>

\* confirmDelete after the awaits: result.success is false, or the request or
\* response.json() threw.
uploadDeleteFailed(k) ==
  /\ k \in 1..Len(deletes)
  /\ deletingUploadId' = 0
  /\ deletes' = WithoutDelete(k)
  /\ UNCHANGED <<uploads, deleteModal>>
  /\ UNCHANGED <<fvars, rendered, vvars, pvars, tvars, evars, svars>>

NextUploads ==
  \/ \E id \in UploadIds : openDeleteModal(id)
  \/ closeDeleteModal
  \/ confirmDelete
  \/ \E k \in 1..MaxDeletes : uploadDeleted(k)
  \/ \E k \in 1..MaxDeletes : uploadDeleteFailed(k)

SpecUploads == InitUploads /\ [][NextUploads]_vars

(***************************************************************************)
(* MultiStepForm.jsx: the store form.  Every handler takes the closure cl  *)
(* of the render that mounted it: what it reads outside a state updater it *)
(* reads from cl, and the controls offered are those that render showed.   *)
(* State updaters (setX(prev => ...)) act on the current state.  Row       *)
(* indices count from 1.                                                   *)
(***************************************************************************)
\* The cap on the rows of one vendor's table.
MaxRanges == 2
MaxFrom == 5
MaxBindings == 3

\* What the user types into a bound field, a payload field, a store field.
TypedBounds == {<<"5">>}
TypedDrafts == {EmptyStr, <<"5">>}
TypedPayloads == {<<"-", "5">>}
TypedStoreFields == {<<"A">>}

NewPriceTier == [from |-> S0, to |-> SMAX, margin |-> EmptyStr, minimumMargin |-> EmptyStr]
NewInventoryTier == [from |-> S0, to |-> SMAX, multipliedWith |-> EmptyStr]

\* The tab panel of step is on screen in the render cl.
Shown(cl, step) ==
  /\ page = "/create-store"
  /\ ~cl.duplicateModal.open
  /\ cl.activeStep = step

VendorIds(settings) == {settings[i].vendorId : i \in 1..Len(settings)}

\* a filter with the test inverted: it keeps the vendor and drops the others
RemoveVendorInverted(prev, vendorId) == SelectSeq(prev, LAMBDA v : v.vendorId = vendorId)

\* prev.filter(v => v.vendorId !== vendorId)
RemoveVendor(prev, vendorId) == SelectSeq(prev, LAMBDA v : v.vendorId # vendorId)

\* ranges.filter((_, i) => i !== idx)
RemoveAt(ranges, idx) ==
  IF idx \in 1..Len(ranges)
  THEN SubSeq(ranges, 1, idx - 1) \o SubSeq(ranges, idx + 1, Len(ranges))
  ELSE ranges

\* The rows after the add-range button: the last row ends 100 above its
\* lower bound and a new open row starts there.
\* The add-range step whose new row starts where the former last row starts.
AddRangeRowsOverlapping(ranges, blank) ==
  LET last == ranges[Len(ranges)]
      from == OrElse(last.from, S0)
      to == toString(Plus100(parseFloat(OrElse(from, S0))))
  IN  [ranges EXCEPT ![Len(ranges)] = [last EXCEPT !.to = to]]
        \o <<[blank EXCEPT !.from = from, !.to = SMAX]>>

AddRangeRows(ranges, blank) ==
  LET last == ranges[Len(ranges)]
      from == OrElse(last.from, S0)
      to == toString(Plus100(parseFloat(OrElse(from, S0))))
  IN  [ranges EXCEPT ![Len(ranges)] = [last EXCEPT !.to = to]] \o <<[blank EXCEPT !.from = to, !.to = SMAX]>>

\* The add-range button is pressed while the table has room for a row and the
\* last lower bound is not above MaxFrom: every press raises the bounds by 100.
CanAddRow(ranges) ==
  /\ Len(ranges) \in 1..(MaxRanges - 1)
  /\ LET from == parseFloat(OrElse(ranges[Len(ranges)].from, S0))
     IN  from.nan \/ NumLeq(from, Num(MaxFrom * 100, 0))

\* The rows after the remove-row button of row idx.
RemoveRangeRows(ranges, idx, blank) ==
  LET rest == RemoveAt(ranges, idx)
  IN  IF Len(rest) = 0 THEN <<blank>>
      ELSE [rest EXCEPT ![Len(rest)] = [rest[Len(rest)] EXCEPT !.to = SMAX]]

\* The rows after typing value into field of row idx.
UpdateRangeRows(ranges, idx, field, value) ==
  [i \in 1..Len(ranges) |->
     IF i = idx THEN [ranges[i] EXCEPT ![field] = KeepNumeric(value)] ELSE ranges[i]]

updateStoreInfo(cl, field, value) ==
  /\ Shown(cl, "store-info")
  /\ storeInfo' = [storeInfo EXCEPT ![field] = value]
  /\ UNCHANGED <<activeStep, priceSettingsByVendor, inventorySettingsByVendor,
                 pricePendingVendor, inventoryPendingVendor, duplicateModal, loading,
                 isEditMode, storeId, toast, request, page>>

\* The price tab's vendor select: only vendors without price settings are offered.
setPricePendingVendor(cl, id) ==
  /\ Shown(cl, "price-settings")
  /\ id \in vendors \ VendorIds(cl.priceSettingsByVendor)
  /\ pricePendingVendor' = IdStr(id)
  /\ UNCHANGED <<activeStep, storeInfo, priceSettingsByVendor, inventorySettingsByVendor,
                 inventoryPendingVendor, duplicateModal, loading, isEditMode, storeId,
                 toast, request, page>>

\* An add-vendor handler without the look into usedPriceVendors.
addPriceVendorUnchecked(cl) ==
  /\ Shown(cl, "price-settings")
  /\ IF cl.pricePendingVendor = EmptyStr
     THEN /\ toast' = ErrorToast("Select a vendor")
          /\ UNCHANGED <<priceSettingsByVendor, pricePendingVendor>>
     ELSE /\ priceSettingsByVendor' =
               Append(priceSettingsByVendor,
                      [vendorId |-> parseInt(cl.pricePendingVendor), purchaseTax |-> EmptyStr,
                       marketplaceFees |-> EmptyStr,
                       priceRanges |-> <<NewPriceTier>>])
          /\ pricePendingVendor' = EmptyStr
          /\ UNCHANGED toast
  /\ UNCHANGED <<activeStep, storeInfo, inventorySettingsByVendor, inventoryPendingVendor,
                 duplicateModal, loading, isEditMode, storeId, request, page>>

addPriceVendor(cl) ==
  /\ Shown(cl, "price-settings")
  /\ IF cl.pricePendingVendor = EmptyStr
     THEN /\ toast' = ErrorToast("Select a vendor")
          /\ UNCHANGED <<priceSettingsByVendor, pricePendingVendor>>
     ELSE LET vid == parseInt(cl.pricePendingVendor)
          IN  IF vid \in VendorIds(cl.priceSettingsByVendor)
              THEN /\ toast' = ErrorToast("Vendor already added")
                   /\ UNCHANGED <<priceSettingsByVendor, pricePendingVendor>>
              ELSE /\ priceSettingsByVendor' =
                        Append(priceSettingsByVendor,
                               [vendorId |-> vid, purchaseTax |-> EmptyStr,
                                marketplaceFees |-> EmptyStr,
                                priceRanges |-> <<NewPriceTier>>])
                   /\ pricePendingVendor' = EmptyStr
                   /\ UNCHANGED toast
  /\ UNCHANGED <<activeStep, storeInfo, inventorySettingsByVendor, inventoryPendingVendor,
                 duplicateModal, loading, isEditMode, storeId, request, page>>

removePriceVendor(cl, vendorId) ==
  /\ Shown(cl, "price-settings")
  /\ vendorId \in VendorIds(cl.priceSettingsByVendor)
  /\ priceSettingsByVendor' = RemoveVendor(priceSettingsByVendor, vendorId)
  /\ UNCHANGED <<activeStep, storeInfo, inventorySettingsByVendor, pricePendingVendor,
                 inventoryPendingVendor, duplicateModal, loading, isEditMode, storeId,
                 toast, request, page>>

updatePriceVendorField(cl, vendorId, field, value) ==
  /\ Shown(cl, "price-settings")
  /\ vendorId \in VendorIds(cl.priceSettingsByVendor)
  /\ priceSettingsByVendor' =
       [i \in 1..Len(priceSettingsByVendor) |->
          IF priceSettingsByVendor[i].vendorId # vendorId THEN priceSettingsByVendor[i]
          ELSE LET v == priceSettingsByVendor[i]
               IN  [v EXCEPT ![field] = KeepNumeric(value)]]
  /\ UNCHANGED <<activeStep, storeInfo, inventorySettingsByVendor, pricePendingVendor,
                 inventoryPendingVendor, duplicateModal, loading, isEditMode, storeId,
                 toast, request, page>>

\* The add button stands in the last row of a vendor's table.
addPriceRange(cl, vendorId) ==
  /\ Shown(cl, "price-settings")
  /\ vendorId \in VendorIds(cl.priceSettingsByVendor)
  /\ \A i \in 1..Len(priceSettingsByVendor) :
       priceSettingsByVendor[i].vendorId = vendorId
         => CanAddRow(priceSettingsByVendor[i].priceRanges)
  /\ priceSettingsByVendor' =
       [i \in 1..Len(priceSettingsByVendor) |->
          IF priceSettingsByVendor[i].vendorId # vendorId THEN priceSettingsByVendor[i]
          ELSE LET v == priceSettingsByVendor[i]
               IN  [v EXCEPT !.priceRanges = AddRangeRows(v.priceRanges, NewPriceTier)]]
  /\ UNCHANGED <<activeStep, storeInfo, inventorySettingsByVendor, pricePendingVendor,
                 inventoryPendingVendor, duplicateModal, loading, isEditMode, storeId,
                 toast, request, page>>

\* Every row has the from, margin and minimum margin inputs; the to input of
\* the last row is read-only.
updatePriceRange(cl, vendorId, idx, field, value) ==
  /\ Shown(cl, "price-settings")
  /\ \E i \in 1..Len(cl.priceSettingsByVendor) :
       /\ cl.priceSettingsByVendor[i].vendorId = vendorId
       /\ idx \in 1..Len(cl.priceSettingsByVendor[i].priceRanges)
       /\ field = "to" => idx < Len(cl.priceSettingsByVendor[i].priceRanges)
  /\ priceSettingsByVendor' =
       [i \in 1..Len(priceSettingsByVendor) |->
          IF priceSettingsByVendor[i].vendorId # vendorId THEN priceSettingsByVendor[i]
          ELSE LET v == priceSettingsByVendor[i]
               IN  [v EXCEPT !.priceRanges = UpdateRangeRows(v.priceRanges, idx, field, value)]]
  /\ UNCHANGED <<activeStep, storeInfo, inventorySettingsByVendor, pricePendingVendor,
                 inventoryPendingVendor, duplicateModal, loading, isEditMode, storeId,
                 toast, request, page>>

\* The remove button stands in every row of a table of more than one row.
removePriceRangeRow(cl, vendorId, idx) ==
  /\ Shown(cl, "price-settings")
  /\ \E i \in 1..Len(cl.priceSettingsByVendor) :
       /\ cl.priceSettingsByVendor[i].vendorId = vendorId
       /\ Len(cl.priceSettingsByVendor[i].priceRanges) > 1
       /\ idx \in 1..Len(cl.priceSettingsByVendor[i].priceRanges)
  /\ priceSettingsByVendor' =
       [i \in 1..Len(priceSettingsByVendor) |->
          IF priceSettingsByVendor[i].vendorId # vendorId THEN priceSettingsByVendor[i]
          ELSE LET v == priceSettingsByVendor[i]
               IN  [v EXCEPT !.priceRanges = RemoveRangeRows(v.priceRanges, idx, NewPriceTier)]]
  /\ UNCHANGED <<activeStep, storeInfo, inventorySettingsByVendor, pricePendingVendor,
                 inventoryPendingVendor, duplicateModal, loading, isEditMode, storeId,
                 toast, request, page>>

\* The inventory tab's vendor select.
setInventoryPendingVendor(cl, id) ==
  /\ Shown(cl, "inventory-settings")
  /\ id \in vendors \ VendorIds(cl.inventorySettingsByVendor)
  /\ inventoryPendingVendor' = IdStr(id)
  /\ UNCHANGED <<activeStep, storeInfo, priceSettingsByVendor, inventorySettingsByVendor,
                 pricePendingVendor, duplicateModal, loading, isEditMode, storeId,
                 toast, request, page>>

addInventoryVendor(cl) ==
  /\ Shown(cl, "inventory-settings")
  /\ IF cl.inventoryPendingVendor = EmptyStr
     THEN /\ toast' = ErrorToast("Select a vendor")
          /\ UNCHANGED <<inventorySettingsByVendor, inventoryPendingVendor>>
     ELSE LET vid == parseInt(cl.inventoryPendingVendor)
          IN  IF vid \in VendorIds(cl.inventorySettingsByVendor)
              THEN /\ toast' = ErrorToast("Vendor already added")
                   /\ UNCHANGED <<inventorySettingsByVendor, inventoryPendingVendor>>
              ELSE /\ inventorySettingsByVendor' =
                        Append(inventorySettingsByVendor,
                               [vendorId |-> vid,
                                priceRanges |-> <<NewInventoryTier>>])
                   /\ inventoryPendingVendor' = EmptyStr
                   /\ UNCHANGED toast
  /\ UNCHANGED <<activeStep, storeInfo, priceSettingsByVendor, pricePendingVendor,
                 duplicateModal, loading, isEditMode, storeId, request, page>>

removeInventoryVendor(cl, vendorId) ==
  /\ Shown(cl, "inventory-settings")
  /\ vendorId \in VendorIds(cl.inventorySettingsByVendor)
  /\ inventorySettingsByVendor' = RemoveVendor(inventorySettingsByVendor, vendorId)
  /\ UNCHANGED <<activeStep, storeInfo, priceSettingsByVendor, pricePendingVendor,
                 inventoryPendingVendor, duplicateModal, loading, isEditMode, storeId,
                 toast, request, page>>

addInventoryRange(cl, vendorId) ==
  /\ Shown(cl, "inventory-settings")
  /\ vendorId \in VendorIds(cl.inventorySettingsByVendor)
  /\ \A i \in 1..Len(inventorySettingsByVendor) :
       inventorySettingsByVendor[i].vendorId = vendorId
         => CanAddRow(inventorySettingsByVendor[i].priceRanges)
  /\ inventorySettingsByVendor' =
       [i \in 1..Len(inventorySettingsByVendor) |->
          IF inventorySettingsByVendor[i].vendorId # vendorId THEN inventorySettingsByVendor[i]
          ELSE LET v == inventorySettingsByVendor[i]
               IN  [v EXCEPT !.priceRanges = AddRangeRows(v.priceRanges, NewInventoryTier)]]
  /\ UNCHANGED <<activeStep, storeInfo, priceSettingsByVendor, pricePendingVendor,
                 inventoryPendingVendor, duplicateModal, loading, isEditMode, storeId,
                 toast, request, page>>

updateInventoryRange(cl, vendorId, idx, field, value) ==
  /\ Shown(cl, "inventory-settings")
  /\ \E i \in 1..Len(cl.inventorySettingsByVendor) :
       /\ cl.inventorySettingsByVendor[i].vendorId = vendorId
       /\ idx \in 1..Len(cl.inventorySettingsByVendor[i].priceRanges)
       /\ field = "to" => idx < Len(cl.inventorySettingsByVendor[i].priceRanges)
  /\ inventorySettingsByVendor' =
       [i \in 1..Len(inventorySettingsByVendor) |->
          IF inventorySettingsByVendor[i].vendorId # vendorId THEN inventorySettingsByVendor[i]
          ELSE LET v == inventorySettingsByVendor[i]
               IN  [v EXCEPT !.priceRanges = UpdateRangeRows(v.priceRanges, idx, field, value)]]
  /\ UNCHANGED <<activeStep, storeInfo, priceSettingsByVendor, pricePendingVendor,
                 inventoryPendingVendor, duplicateModal, loading, isEditMode, storeId,
                 toast, request, page>>

removeInventoryRangeRow(cl, vendorId, idx) ==
  /\ Shown(cl, "inventory-settings")
  /\ \E i \in 1..Len(cl.inventorySettingsByVendor) :
       /\ cl.inventorySettingsByVendor[i].vendorId = vendorId
       /\ Len(cl.inventorySettingsByVendor[i].priceRanges) > 1
       /\ idx \in 1..Len(cl.inventorySettingsByVendor[i].priceRanges)
  /\ inventorySettingsByVendor' =
       [i \in 1..Len(inventorySettingsByVendor) |->
          IF inventorySettingsByVendor[i].vendorId # vendorId THEN inventorySettingsByVendor[i]
          ELSE LET v == inventorySettingsByVendor[i]
               IN  [v EXCEPT !.priceRanges = RemoveRangeRows(v.priceRanges, idx, NewInventoryTier)]]
  /\ UNCHANGED <<activeStep, storeInfo, priceSettingsByVendor, pricePendingVendor,
                 inventoryPendingVendor, duplicateModal, loading, isEditMode, storeId,
                 toast, request, page>>

\* The Duplicate button of the price or the inventory tab.
openDuplicateModal(cl, type) ==
  /\ \/ type = "price" /\ Shown(cl, "price-settings")
     \/ type = "inventory" /\ Shown(cl, "inventory-settings")
  /\ LET settings == IF type = "price" THEN cl.priceSettingsByVendor
                     ELSE cl.inventorySettingsByVendor
     IN  IF Len(settings) = 0
         THEN /\ toast' = ErrorToast(IF type = "price"
                                     THEN "Add at least one vendor in Price Settings first"
                                     ELSE "Add at least one vendor in Inventory Settings first")
              /\ UNCHANGED duplicateModal
         ELSE /\ duplicateModal' = [open |-> TRUE, type |-> type, fromVendorId |-> EmptyStr,
                                    toVendorId |-> EmptyStr, copyFees |-> TRUE]
              /\ UNCHANGED toast
  /\ UNCHANGED <<activeStep, storeInfo, priceSettingsByVendor, inventorySettingsByVendor,
                 pricePendingVendor, inventoryPendingVendor, loading, isEditMode, storeId,
                 request, page>>

ModalShown(cl) == page = "/create-store" /\ cl.duplicateModal.open

closeDuplicateModal(cl) ==
  /\ ModalShown(cl)
  /\ duplicateModal' = [duplicateModal EXCEPT !.open = FALSE]
  /\ UNCHANGED <<activeStep, storeInfo, priceSettingsByVendor, inventorySettingsByVendor,
                 pricePendingVendor, inventoryPendingVendor, loading, isEditMode, storeId,
                 toast, request, page>>

\* The modal's source select offers the vendors that have settings of the type.
selectDuplicateFrom(cl, id) ==
  /\ ModalShown(cl)
  /\ id \in VendorIds(IF cl.duplicateModal.type = "price" THEN cl.priceSettingsByVendor
                      ELSE cl.inventorySettingsByVendor)
  /\ duplicateModal' = [duplicateModal EXCEPT !.fromVendorId = IdStr(id)]
  /\ UNCHANGED <<activeStep, storeInfo, priceSettingsByVendor, inventorySettingsByVendor,
                 pricePendingVendor, inventoryPendingVendor, loading, isEditMode, storeId,
                 toast, request, page>>

\* The modal's target select offers every vendor.
selectDuplicateTo(cl, id) ==
  /\ ModalShown(cl)
  /\ id \in vendors
  /\ duplicateModal' = [duplicateModal EXCEPT !.toVendorId = IdStr(id)]
  /\ UNCHANGED <<activeStep, storeInfo, priceSettingsByVendor, inventorySettingsByVendor,
                 pricePendingVendor, inventoryPendingVendor, loading, isEditMode, storeId,
                 toast, request, page>>

\* The "Include tax & marketplace fees" checkbox, shown for the price type.
setDuplicateCopyFees(cl, checked) ==
  /\ ModalShown(cl)
  /\ cl.duplicateModal.type = "price"
  /\ duplicateModal' = [duplicateModal EXCEPT !.copyFees = checked]
  /\ UNCHANGED <<activeStep, storeInfo, priceSettingsByVendor, inventorySettingsByVendor,
                 pricePendingVendor, inventoryPendingVendor, loading, isEditMode, storeId,
                 toast, request, page>>

\* String(r.to || "MAX").toUpperCase() === 'MAX' ? 'MAX' : String(r.to)
CopyTo(to) == IF toUpperCase(OrElse(to, SMAX)) = SMAX THEN SMAX ELSE to

\* The copy that starts every tier at "0" instead of at the source's bound.
PriceRangesCopyFromZero(ranges) ==
  [i \in 1..Len(ranges) |->
     [from |-> S0, to |-> CopyTo(ranges[i].to),
      margin |-> ranges[i].margin, minimumMargin |-> ranges[i].minimumMargin]]

PriceRangesCopy(ranges) ==
  [i \in 1..Len(ranges) |->
     [from |-> OrElse(ranges[i].from, S0), to |-> CopyTo(ranges[i].to),
      margin |-> ranges[i].margin, minimumMargin |-> ranges[i].minimumMargin]]

InventoryRangesCopy(ranges) ==
  [i \in 1..Len(ranges) |->
     [from |-> OrElse(ranges[i].from, S0), to |-> CopyTo(ranges[i].to),
      multipliedWith |-> ranges[i].multipliedWith]]

\* prev.findIndex(v => v.vendorId === toId), 0 for -1
FindIndex(prev, id) ==
  IF id \in VendorIds(prev)
  THEN CHOOSE i \in 1..Len(prev) :
         prev[i].vendorId = id /\ \A j \in 1..(i - 1) : prev[j].vendorId # id
  ELSE 0

\* prev.find(v => v.vendorId === id); only used with id among the vendor ids
Find(prev, id) == prev[FindIndex(prev, id)]

\* The updater without the confirmation: an existing target is overwritten
\* whatever the answer to window.confirm.
DuplicatePriceUnasked(prev, source, toId, copyFees, proceed) ==
  LET rangesCopy == PriceRangesCopy(source.priceRanges)
      existsIdx == FindIndex(prev, toId)
  IN  IF existsIdx # 0
      THEN [prev EXCEPT ![existsIdx] =
              [vendorId |-> prev[existsIdx].vendorId,
               purchaseTax |-> IF copyFees THEN source.purchaseTax
                               ELSE prev[existsIdx].purchaseTax,
               marketplaceFees |-> IF copyFees THEN source.marketplaceFees
                                   ELSE prev[existsIdx].marketplaceFees,
               priceRanges |-> rangesCopy]]
      ELSE Append(prev, [vendorId |-> toId,
                         purchaseTax |-> IF copyFees THEN source.purchaseTax ELSE EmptyStr,
                         marketplaceFees |-> IF copyFees THEN source.marketplaceFees
                                             ELSE EmptyStr,
                         priceRanges |-> rangesCopy])

\* The updater of setPriceSettingsByVendor in applyDuplicate; proceed is the
\* answer to window.confirm.
DuplicatePrice(prev, source, toId, copyFees, proceed) ==
  LET rangesCopy == PriceRangesCopy(source.priceRanges)
      existsIdx == FindIndex(prev, toId)
  IN  IF existsIdx # 0
      THEN IF ~proceed THEN prev
           ELSE [prev EXCEPT ![existsIdx] =
                   [vendorId |-> prev[existsIdx].vendorId,
                    purchaseTax |-> IF copyFees THEN source.purchaseTax
                                    ELSE prev[existsIdx].purchaseTax,
                    marketplaceFees |-> IF copyFees THEN source.marketplaceFees
                                        ELSE prev[existsIdx].marketplaceFees,
                    priceRanges |-> rangesCopy]]
      ELSE Append(prev, [vendorId |-> toId,
                         purchaseTax |-> IF copyFees THEN source.purchaseTax ELSE EmptyStr,
                         marketplaceFees |-> IF copyFees THEN source.marketplaceFees
                                             ELSE EmptyStr,
                         priceRanges |-> rangesCopy])

\* The updater of setInventorySettingsByVendor in applyDuplicate.
DuplicateInventory(prev, source, toId, proceed) ==
  LET rangesCopy == InventoryRangesCopy(source.priceRanges)
      existsIdx == FindIndex(prev, toId)
  IN  IF existsIdx # 0
      THEN IF ~proceed THEN prev
           ELSE [prev EXCEPT ![existsIdx] = [prev[existsIdx] EXCEPT !.priceRanges = rangesCopy]]
      ELSE Append(prev, [vendorId |-> toId, priceRanges |-> rangesCopy])

\* The Duplicate button without its three early returns: a source that is not
\* found copies as (source.priceRanges || []), an empty rule set with empty fees.
applyDuplicateUnguarded(cl, proceed) ==
  /\ ModalShown(cl)
  /\ LET m == cl.duplicateModal
         fromId == parseInt(m.fromVendorId)
         toId == parseInt(m.toVendorId)
         settings == IF m.type = "price" THEN cl.priceSettingsByVendor
                     ELSE cl.inventorySettingsByVendor
         source == IF fromId \in VendorIds(settings) THEN Find(settings, fromId)
                   ELSE [vendorId |-> fromId, purchaseTax |-> EmptyStr,
                         marketplaceFees |-> EmptyStr, priceRanges |-> << >>]
     IN  IF m.type = "price"
         THEN /\ priceSettingsByVendor' =
                   DuplicatePrice(priceSettingsByVendor, source, toId, m.copyFees, proceed)
              /\ toast' = SuccessToast("Price settings duplicated")
              /\ duplicateModal' = [duplicateModal EXCEPT !.open = FALSE]
              /\ UNCHANGED inventorySettingsByVendor
         ELSE /\ inventorySettingsByVendor' =
                   DuplicateInventory(inventorySettingsByVendor, source, toId, proceed)
              /\ toast' = SuccessToast("Inventory settings duplicated")
              /\ duplicateModal' = [duplicateModal EXCEPT !.open = FALSE]
              /\ UNCHANGED priceSettingsByVendor
  /\ UNCHANGED <<activeStep, storeInfo, pricePendingVendor, inventoryPendingVendor, loading,
                 isEditMode, storeId, request, page>>

\* The modal's Duplicate button.
applyDuplicate(cl, proceed) ==
  /\ ModalShown(cl)
  /\ LET m == cl.duplicateModal
         fromId == parseInt(m.fromVendorId)
         toId == parseInt(m.toVendorId)
         settings == IF m.type = "price" THEN cl.priceSettingsByVendor
                     ELSE cl.inventorySettingsByVendor
     IN  IF fromId = -1 \/ toId = -1
         THEN /\ toast' = ErrorToast("Select source and target vendors")
              /\ UNCHANGED <<priceSettingsByVendor, inventorySettingsByVendor, duplicateModal>>
         ELSE IF toId \notin vendors
         THEN /\ toast' = ErrorToast("Invalid target vendor")
              /\ UNCHANGED <<priceSettingsByVendor, inventorySettingsByVendor, duplicateModal>>
         ELSE IF fromId \notin VendorIds(settings)
         THEN /\ toast' = ErrorToast(IF m.type = "price"
                                     THEN "Source vendor not found in Price Settings"
                                     ELSE "Source vendor not found in Inventory Settings")
              /\ UNCHANGED <<priceSettingsByVendor, inventorySettingsByVendor, duplicateModal>>
         ELSE IF m.type = "price"
         THEN /\ priceSettingsByVendor' =
                   DuplicatePrice(priceSettingsByVendor, Find(settings, fromId), toId,
                                  m.copyFees, proceed)
              /\ toast' = SuccessToast("Price settings duplicated")
              /\ duplicateModal' = [duplicateModal EXCEPT !.open = FALSE]
              /\ UNCHANGED inventorySettingsByVendor
         ELSE /\ inventorySettingsByVendor' =
                   DuplicateInventory(inventorySettingsByVendor, Find(settings, fromId), toId,
                                      proceed)
              /\ toast' = SuccessToast("Inventory settings duplicated")
              /\ duplicateModal' = [duplicateModal EXCEPT !.open = FALSE]
              /\ UNCHANGED priceSettingsByVendor
  /\ UNCHANGED <<activeStep, storeInfo, pricePendingVendor, inventoryPendingVendor, loading,
                 isEditMode, storeId, request, page>>

\* A tab trigger: onValueChange={(value) => setActiveStep(value)}.  The form
\* passes value and onValueChange, so the panel on screen is the one of
\* activeStep; a trigger changes it without any validation.
setActiveStep(cl, value) ==
  /\ page = "/create-store"
  /\ ~cl.duplicateModal.open
  /\ value \in {"store-info", "price-settings", "inventory-settings"} \ {cl.activeStep}
  /\ activeStep' = value
  /\ UNCHANGED <<storeInfo, priceSettingsByVendor, inventorySettingsByVendor,
                 pricePendingVendor, inventoryPendingVendor, duplicateModal, loading,
                 isEditMode, storeId, toast, request, page>>

\* A validation loop that never returns early.
NeverFails(settings) == {TRUE}

\* The values the loop "for (const v of settings) if (!rangesAreContiguous(...)) return"
\* can come to: TRUE when it runs to its end, FALSE when it returns early.
AllContiguous(settings) ==
  { b \in BOOLEAN :
      IF b THEN \A i \in 1..Len(settings) : TRUE \in rangesAreContiguous(settings[i].priceRanges)
           ELSE \E i \in 1..Len(settings) : FALSE \in rangesAreContiguous(settings[i].priceRanges) }

\* The Continue button of the first two tabs.
goToNextStep(cl) ==
  /\ Shown(cl, "store-info") \/ Shown(cl, "price-settings")
  /\ IF cl.activeStep = "store-info"
     THEN IF cl.storeInfo.storeName = EmptyStr \/ cl.storeInfo.marketplace = EmptyStr
          THEN /\ toast' = ErrorToast("Please fill in all required fields")
               /\ UNCHANGED activeStep
          ELSE /\ activeStep' = "price-settings"
               /\ UNCHANGED toast
     ELSE \E ok \in AllContiguous(cl.priceSettingsByVendor) :
            IF ok
            THEN /\ activeStep' = "inventory-settings"
                 /\ UNCHANGED toast
            ELSE /\ toast' = ErrorToast("Price ranges must be contiguous and end with MAX")
                 /\ UNCHANGED activeStep
  /\ UNCHANGED <<storeInfo, priceSettingsByVendor, inventorySettingsByVendor,
                 pricePendingVendor, inventoryPendingVendor, duplicateModal, loading,
                 isEditMode, storeId, request, page>>

\* The Back button of the last two tabs.
goToPreviousStep(cl) ==
  /\ Shown(cl, "price-settings") \/ Shown(cl, "inventory-settings")
  /\ activeStep' = IF cl.activeStep = "price-settings" THEN "store-info" ELSE "price-settings"
  /\ UNCHANGED <<storeInfo, priceSettingsByVendor, inventorySettingsByVendor,
                 pricePendingVendor, inventoryPendingVendor, duplicateModal, loading,
                 isEditMode, storeId, toast, request, page>>

\* The arrow in the header: navigate("/settings") unmounts the form.
navigateToSettings ==
  /\ page = "/create-store"
  /\ ~duplicateModal.open
  /\ page' = "/settings"
  /\ UNCHANGED <<activeStep, storeInfo, priceSettingsByVendor, inventorySettingsByVendor,
                 pricePendingVendor, inventoryPendingVendor, duplicateModal, loading,
                 isEditMode, storeId, toast, request>>

\* The submit button of the inventory tab, up to the await of the API call.  A
\* failed validation returns through the finally block, so setLoading(true) and
\* setLoading(false) are batched into loading = false.
handleSubmit(cl) ==
  /\ Shown(cl, "inventory-settings")
  /\ ~cl.loading
  /\ \E ok \in AllContiguous(cl.inventorySettingsByVendor) :
       IF ok
       THEN /\ request' = [state |-> "pending",
                           method |-> IF cl.isEditMode /\ cl.storeId # << >>
                                      THEN "updateStore" ELSE "createStore",
                           storeId |-> cl.storeId,
                           storeInfo |-> cl.storeInfo,
                           priceSettingsByVendor |-> cl.priceSettingsByVendor,
                           inventorySettingsByVendor |-> cl.inventorySettingsByVendor]
            /\ loading' = TRUE
            /\ UNCHANGED toast
       ELSE /\ toast' = ErrorToast("Inventory ranges must be contiguous and end with MAX")
            /\ loading' = FALSE
            /\ UNCHANGED request
  /\ UNCHANGED <<activeStep, storeInfo, priceSettingsByVendor, inventorySettingsByVendor,
                 pricePendingVendor, inventoryPendingVendor, duplicateModal, isEditMode,
                 storeId, page>>

\* handleSubmit after the await: the call resolved.
storeSaved ==
  /\ request.state = "pending"
  /\ request' = [state |-> "resolved"]
  /\ toast' = SuccessToast(IF request.method = "updateStore"
                           THEN "Store updated successfully"
                           ELSE "Store created successfully")
  /\ page' = "/settings"
  /\ loading' = FALSE
  /\ UNCHANGED <<activeStep, storeInfo, priceSettingsByVendor, inventorySettingsByVendor,
                 pricePendingVendor, inventoryPendingVendor, duplicateModal, isEditMode,
                 storeId>>

\* a catch without the finally block: loading stays true
storeSaveFailedStillLoading ==
  /\ request.state = "pending"
  /\ request' = [state |-> "rejected"]
  /\ toast' = ErrorToast(IF isEditMode THEN "Failed to update store"
                         ELSE "Failed to create store")
  /\ UNCHANGED <<activeStep, storeInfo, priceSettingsByVendor, inventorySettingsByVendor,
                 pricePendingVendor, inventoryPendingVendor, duplicateModal, isEditMode,
                 storeId, page, loading>>

\* handleSubmit after the await: the call rejected.
storeSaveFailed ==
  /\ request.state = "pending"
  /\ request' = [state |-> "rejected"]
  /\ toast' = ErrorToast(IF isEditMode THEN "Failed to update store"
                         ELSE "Failed to create store")
  /\ loading' = FALSE
  /\ UNCHANGED <<activeStep, storeInfo, priceSettingsByVendor, inventorySettingsByVendor,
                 pricePendingVendor, inventoryPendingVendor, duplicateModal, isEditMode,
                 storeId, page>>

\* The user of Spec types into the range tables of one vendor; the user of
\* SpecVendors and of SpecStale works with both vendors and leaves the range
\* tables alone.
EditedVendors == {1}

\* React renders after every event, so a handler sees the state of the moment.
Rerender == rendered' = Closure' /\ UNCHANGED <<vvars, pvars, tvars, ovars>>

\* The user of Spec leaves the form alone while a submitted store is saved.
Idle == request.state # "pending"

Init == FormCreate /\ ValidatorIdle /\ WizardIdle /\ TransformIdle /\ OthersIdle

Next ==
  \/ Idle /\ (\E field \in {"storeName", "marketplace"}, value \in TypedStoreFields :
          updateStoreInfo(Closure, field, value)) /\ Rerender
  \/ Idle /\ (\E id \in EditedVendors : setPricePendingVendor(Closure, id)) /\ Rerender
  \/ Idle /\ (addPriceVendor(Closure)) /\ Rerender
  \/ Idle /\ (\E id \in vendors : removePriceVendor(Closure, id)) /\ Rerender
  \/ Idle /\ (\E id \in EditedVendors : setInventoryPendingVendor(Closure, id)) /\ Rerender
  \/ Idle /\ (addInventoryVendor(Closure)) /\ Rerender
  \/ Idle /\ (\E id \in vendors : removeInventoryVendor(Closure, id)) /\ Rerender
  \/ Idle /\ (\E id \in vendors : addPriceRange(Closure, id)) /\ Rerender
  \/ Idle /\ (\E id \in vendors, idx \in 1..MaxRanges, field \in {"from", "to"}, value \in TypedBounds :
          updatePriceRange(Closure, id, idx, field, value)) /\ Rerender
  \/ Idle /\ (\E id \in vendors, idx \in 1..MaxRanges : removePriceRangeRow(Closure, id, idx)) /\ Rerender
  \/ Idle /\ (\E id \in vendors : addInventoryRange(Closure, id)) /\ Rerender
  \/ Idle /\ (\E id \in vendors, idx \in 1..MaxRanges, field \in {"from", "to"}, value \in TypedBounds :
          updateInventoryRange(Closure, id, idx, field, value)) /\ Rerender
  \/ Idle /\ (\E id \in vendors, idx \in 1..MaxRanges : removeInventoryRangeRow(Closure, id, idx)) /\ Rerender
  \/ Idle /\ (\E value \in {"store-info", "price-settings", "inventory-settings"} :
          setActiveStep(Closure, value)) /\ Rerender
  \/ Idle /\ (goToNextStep(Closure)) /\ Rerender
  \/ Idle /\ (goToPreviousStep(Closure)) /\ Rerender
  \/ Idle /\ (handleSubmit(Closure)) /\ Rerender
  \/ (storeSaved) /\ Rerender
  \/ (storeSaveFailed) /\ Rerender
  \/ Idle /\ (navigateToSettings) /\ Rerender

Spec == Init /\ [][Next]_vars

NextVendors ==
  \/ (\E value \in {"store-info", "price-settings", "inventory-settings"} :
          setActiveStep(Closure, value)) /\ Rerender
  \/ (\E id \in vendors : setPricePendingVendor(Closure, id)) /\ Rerender
  \/ (addPriceVendor(Closure)) /\ Rerender
  \/ (\E id \in vendors : removePriceVendor(Closure, id)) /\ Rerender
  \/ (\E id \in vendors : setInventoryPendingVendor(Closure, id)) /\ Rerender
  \/ (addInventoryVendor(Closure)) /\ Rerender
  \/ (\E id \in vendors : removeInventoryVendor(Closure, id)) /\ Rerender
  \/ (\E id \in vendors, value \in TypedPayloads :
          updatePriceVendorField(Closure, id, "purchaseTax", value)) /\ Rerender
  \/ (\E type \in {"price", "inventory"} : openDuplicateModal(Closure, type)) /\ Rerender
  \/ (closeDuplicateModal(Closure)) /\ Rerender
  \/ (\E id \in vendors : selectDuplicateFrom(Closure, id)) /\ Rerender
  \/ (\E id \in vendors : selectDuplicateTo(Closure, id)) /\ Rerender
  \/ (\E checked \in BOOLEAN : setDuplicateCopyFees(Closure, checked)) /\ Rerender
  \/ (\E proceed \in BOOLEAN : applyDuplicate(Closure, proceed)) /\ Rerender

SpecVendors == Init /\ [][NextVendors]_vars

\* The user of SpecRows works on the rows of the tables: adds vendor 1 by hand
\* on either tab, adds and removes rows, types a signed number into a cell of
\* the first price row or clears it, and copies the price settings to the other
\* vendor.
TypedCells == {EmptyStr, <<"-", "5">>}

NextRows ==
  \/ (\E value \in {"price-settings", "inventory-settings"} :
         setActiveStep(Closure, value)) /\ Rerender
  \/ (\E id \in EditedVendors : setPricePendingVendor(Closure, id)) /\ Rerender
  \/ (addPriceVendor(Closure)) /\ Rerender
  \/ (\E id \in vendors : addPriceRange(Closure, id)) /\ Rerender
  \/ (\E id \in EditedVendors, field \in {"from", "to", "margin"}, value \in TypedCells :
         updatePriceRange(Closure, id, 1, field, value)) /\ Rerender
  \/ (\E id \in vendors, idx \in 1..MaxRanges :
         removePriceRangeRow(Closure, id, idx)) /\ Rerender
  \/ (\E id \in EditedVendors : setInventoryPendingVendor(Closure, id)) /\ Rerender
  \/ (addInventoryVendor(Closure)) /\ Rerender
  \/ (\E id \in vendors : addInventoryRange(Closure, id)) /\ Rerender
  \/ (\E id \in vendors, idx \in 1..MaxRanges :
         removeInventoryRangeRow(Closure, id, idx)) /\ Rerender
  \/ (openDuplicateModal(Closure, "price")) /\ Rerender
  \/ (\E id \in EditedVendors : selectDuplicateFrom(Closure, id)) /\ Rerender
  \/ (\E id \in vendors \ EditedVendors : selectDuplicateTo(Closure, id)) /\ Rerender
  \/ (\E proceed \in BOOLEAN : applyDuplicate(Closure, proceed)) /\ Rerender

SpecRows == Init /\ [][NextRows]_vars

\* The user of SpecFrame uses every operation on the bindings: adds vendor 1 by
\* hand on the price tab and either vendor on the inventory tab, types a fee
\* and a cell of the first row, adds and removes rows, removes either vendor,
\* and copies the price settings to the other vendor.
NextFrame ==
  \/ (\E value \in {"price-settings", "inventory-settings"} :
         setActiveStep(Closure, value)) /\ Rerender
  \/ (\E id \in EditedVendors : setPricePendingVendor(Closure, id)) /\ Rerender
  \/ (addPriceVendor(Closure)) /\ Rerender
  \/ (\E id \in vendors : removePriceVendor(Closure, id)) /\ Rerender
  \/ (\E id \in EditedVendors, value \in TypedPayloads :
         updatePriceVendorField(Closure, id, "purchaseTax", value)) /\ Rerender
  \/ (\E id \in EditedVendors : addPriceRange(Closure, id)) /\ Rerender
  \/ (\E id \in EditedVendors, value \in TypedPayloads :
         updatePriceRange(Closure, id, 1, "margin", value)) /\ Rerender
  \/ (\E id \in EditedVendors, idx \in 1..MaxRanges :
         removePriceRangeRow(Closure, id, idx)) /\ Rerender
  \/ (\E id \in vendors : setInventoryPendingVendor(Closure, id)) /\ Rerender
  \/ (addInventoryVendor(Closure)) /\ Rerender
  \/ (\E id \in vendors : removeInventoryVendor(Closure, id)) /\ Rerender
  \/ (\E id \in EditedVendors : addInventoryRange(Closure, id)) /\ Rerender
  \/ (\E id \in EditedVendors, value \in TypedPayloads :
         updateInventoryRange(Closure, id, 1, "multipliedWith", value)) /\ Rerender
  \/ (\E id \in EditedVendors, idx \in 1..MaxRanges :
         removeInventoryRangeRow(Closure, id, idx)) /\ Rerender
  \/ (openDuplicateModal(Closure, "price")) /\ Rerender
  \/ (\E id \in EditedVendors : selectDuplicateFrom(Closure, id)) /\ Rerender
  \/ (\E id \in vendors \ EditedVendors : selectDuplicateTo(Closure, id)) /\ Rerender
  \/ (\E proceed \in BOOLEAN : applyDuplicate(Closure, proceed)) /\ Rerender

SpecFrame == Init /\ [][NextFrame]_vars

(***************************************************************************)
(* The form opened on a stored store (edit mode): settings.jsx hands the    *)
(* converted store to the form in location.state.storeData, and the effect  *)
(* of MultiStepForm.jsx 67-77 puts it in the form state.  The user retypes   *)
(* bounds of the inventory tiers and submits.                               *)
(***************************************************************************)
S200 == <<"2", "0", "0">>

\* a stored store with three inventory tiers, as the backend returns it
StoredStore ==
  [id |-> 1, name |-> <<"A">>, marketplace |-> [id |-> 1, name |-> <<"M">>],
   is_active |-> TRUE, created_at |-> EmptyStr, api_key_enc |-> <<"k">>,
   price_settings_by_vendor |->
     <<[vendor_id |-> 1, purchase_tax_percentage |-> Zero,
        marketplace_fees_percentage |-> Zero,
        price_ranges |-> <<[from_value |-> Zero, to_value |-> SMAX,
                            margin_percentage |-> Num(1000, 0),
                            minimum_margin_cents |-> Zero]>>]>>,
   inventory_settings_by_vendor |->
     <<[vendor_id |-> 1,
        inventory_ranges |->
          <<[from_value |-> Zero, to_value |-> S100, multiplier |-> Num(100, 0)],
            [from_value |-> Num(10000, 0), to_value |-> S200, multiplier |-> Num(100, 0)],
            [from_value |-> Num(20000, 0), to_value |-> SMAX,
             multiplier |-> Num(100, 0)]>>]>>]

\* The form as mounted for editing StoredStore.
FormEdit ==
  LET storeData == transformStoreDataForFrontend(StoredStore)
  IN  /\ activeStep = "store-info"
      /\ storeInfo = storeData.storeInfo
      /\ priceSettingsByVendor = storeData.priceSettingsByVendor
      /\ inventorySettingsByVendor = storeData.inventorySettingsByVendor
      /\ pricePendingVendor = EmptyStr
      /\ inventoryPendingVendor = EmptyStr
      /\ duplicateModal = ClosedModal
      /\ loading = FALSE
      /\ isEditMode = TRUE
      /\ storeId = <<storeData.id>>
      /\ toast = NoToast
      /\ request = NoRequest
      /\ page = "/create-store"
      /\ rendered = Closure

InitOrder == FormEdit /\ ValidatorIdle /\ WizardIdle /\ TransformIdle /\ OthersIdle

\* the bounds retyped
TypedOrder == {S0, S100, S200}

\* The user of SpecOrder does not wait for a pending request: every control the
\* form shows is used.
NextOrder ==
  \/ (\E value \in {"store-info", "price-settings", "inventory-settings"} :
         setActiveStep(Closure, value)) /\ Rerender
  \/ (\E idx \in 1..3, field \in {"from", "to"}, value \in TypedOrder :
         updateInventoryRange(Closure, 1, idx, field, value)) /\ Rerender
  \/ (handleSubmit(Closure)) /\ Rerender
  \/ (storeSaved) /\ Rerender
  \/ (storeSaveFailed) /\ Rerender
  \/ (navigateToSettings) /\ Rerender

SpecOrder == InitOrder /\ [][NextOrder]_vars

\* The user of SpecDuplicate adds one vendor by hand, types into the purchase
\* tax and into the first row of a table, adds price rows, and copies settings
\* between the two vendors.
NextDuplicate ==
  \/ (\E value \in {"price-settings", "inventory-settings"} :
          setActiveStep(Closure, value)) /\ Rerender
  \/ (\E id \in EditedVendors : setPricePendingVendor(Closure, id)) /\ Rerender
  \/ (addPriceVendor(Closure)) /\ Rerender
  \/ (\E id \in EditedVendors, value \in TypedPayloads :
          updatePriceVendorField(Closure, id, "purchaseTax", value)) /\ Rerender
  \/ (\E id \in vendors : addPriceRange(Closure, id)) /\ Rerender
  \/ (\E id \in EditedVendors, value \in TypedDrafts :
          updatePriceRange(Closure, id, 1, "from", value)) /\ Rerender
  \/ (\E id \in EditedVendors : setInventoryPendingVendor(Closure, id)) /\ Rerender
  \/ (addInventoryVendor(Closure)) /\ Rerender
  \/ (\E id \in EditedVendors, value \in TypedBounds :
          updateInventoryRange(Closure, id, 1, "from", value)) /\ Rerender
  \/ (\E type \in {"price", "inventory"} : openDuplicateModal(Closure, type)) /\ Rerender
  \/ (closeDuplicateModal(Closure)) /\ Rerender
  \/ (\E id \in vendors : selectDuplicateFrom(Closure, id)) /\ Rerender
  \/ (\E id \in vendors : selectDuplicateTo(Closure, id)) /\ Rerender
  \/ (\E checked \in BOOLEAN : setDuplicateCopyFees(Closure, checked)) /\ Rerender
  \/ (\E proceed \in BOOLEAN : applyDuplicate(Closure, proceed)) /\ Rerender

SpecDuplicate == Init /\ [][NextDuplicate]_vars

\* The handlers of one render stay in use until React renders again: two events
\* dispatched in one task run the handlers of the same render.
Render ==
  /\ rendered # Closure
  /\ rendered' = Closure
  /\ UNCHANGED <<fvars, vvars, pvars, tvars, ovars>>

\* Stale handlers can append without end; the collections stop at MaxBindings.
Room(settings) == Len(settings) < MaxBindings

NextStale ==
  \/ (\E value \in {"store-info", "price-settings", "inventory-settings"} :
          setActiveStep(rendered, value)) /\ UNCHANGED <<rendered, vvars, pvars, tvars, ovars>>
  \/ (\E id \in vendors : setPricePendingVendor(rendered, id)) /\ UNCHANGED <<rendered, vvars, pvars, tvars, ovars>>
  \/ Room(priceSettingsByVendor) /\ (addPriceVendor(rendered)) /\ UNCHANGED <<rendered, vvars, pvars, tvars, ovars>>
  \/ (\E id \in vendors : removePriceVendor(rendered, id)) /\ UNCHANGED <<rendered, vvars, pvars, tvars, ovars>>
  \/ (\E id \in vendors : setInventoryPendingVendor(rendered, id)) /\ UNCHANGED <<rendered, vvars, pvars, tvars, ovars>>
  \/ Room(inventorySettingsByVendor) /\ (addInventoryVendor(rendered)) /\ UNCHANGED <<rendered, vvars, pvars, tvars, ovars>>
  \/ (\E id \in vendors : removeInventoryVendor(rendered, id)) /\ UNCHANGED <<rendered, vvars, pvars, tvars, ovars>>
  \/ Render

SpecStale == Init /\ [][NextStale]_vars

(***************************************************************************)
(* CreateStore.jsx with PriceSettings: the two-step store wizard.          *)
(***************************************************************************)
\* The state of MultiStepForm, which the wizard does not have.
formOnly == <<activeStep, pricePendingVendor, inventoryPendingVendor, duplicateModal,
              loading, isEditMode, storeId, rendered>>

WizardStep(n) == page = "/create-store" /\ currentStep = n

TabShown(tab) == WizardStep(2) /\ activeTab = tab

\* setFormData(prev => ({...prev, [field]: value})) from the store details step
updateFormData(field, value) ==
  /\ WizardStep(1)
  /\ storeInfo' = [storeInfo EXCEPT ![field] = value]
  /\ UNCHANGED <<priceSettingsByVendor, inventorySettingsByVendor, toast, request, page,
                 formOnly, vvars, tvars, ovars, pvars>>

isNextDisabled ==
  IF currentStep = 1
  THEN storeInfo.storeName = EmptyStr \/ storeInfo.marketplace = EmptyStr
  ELSE FALSE

\* The Next button of step 1; step 2 mounts PriceSettings with its initial state.
handleNext ==
  /\ WizardStep(1)
  /\ ~isNextDisabled
  /\ currentStep' = currentStep + 1
  /\ activeTab' = "price"
  /\ pendingVendorId' = EmptyStr
  /\ UNCHANGED <<storeInfo, priceSettingsByVendor, inventorySettingsByVendor, toast, request,
                 page, formOnly, vvars, tvars, ovars>>

\* The Back button, enabled on step 2.
handleBack ==
  /\ WizardStep(2)
  /\ currentStep' = currentStep - 1
  /\ UNCHANGED <<storeInfo, priceSettingsByVendor, inventorySettingsByVendor, toast, request,
                 page, formOnly, vvars, tvars, ovars, activeTab, pendingVendorId>>

setActiveTab(tab) ==
  /\ WizardStep(2)
  /\ tab \in {"price", "inventory"} \ {activeTab}
  /\ activeTab' = tab
  /\ UNCHANGED <<storeInfo, priceSettingsByVendor, inventorySettingsByVendor, toast, request,
                 page, formOnly, vvars, tvars, ovars, currentStep, pendingVendorId>>

\* The select of the tab on screen offers the vendors without settings of its kind.
setPendingVendorId(id) ==
  /\ WizardStep(2)
  /\ id \in vendors \ VendorIds(IF activeTab = "price" THEN priceSettingsByVendor
                               ELSE inventorySettingsByVendor)
  /\ pendingVendorId' = IdStr(id)
  /\ UNCHANGED <<storeInfo, priceSettingsByVendor, inventorySettingsByVendor, toast, request,
                 page, formOnly, vvars, tvars, ovars, currentStep, activeTab>>

psNewPriceTier == [from |-> S0, to |-> SMAX, margin |-> S0, minimumMargin |-> S0]
psNewInventoryTier == [from |-> S0, to |-> SMAX, multipliedWith |-> S1]

addVendorToActiveTab ==
  /\ WizardStep(2)
  /\ IF pendingVendorId = EmptyStr
     THEN /\ toast' = ErrorToast("Select a vendor first")
          /\ UNCHANGED <<priceSettingsByVendor, inventorySettingsByVendor, pendingVendorId>>
     ELSE LET vid == parseInt(pendingVendorId)
          IN  IF activeTab = "price"
              THEN IF vid \in VendorIds(priceSettingsByVendor)
                   THEN /\ toast' = ErrorToast("Vendor already added to Price")
                        /\ UNCHANGED <<priceSettingsByVendor, inventorySettingsByVendor,
                                       pendingVendorId>>
                   ELSE /\ priceSettingsByVendor' =
                             Append(priceSettingsByVendor,
                                    [vendorId |-> vid, purchaseTax |-> S0,
                                     marketplaceFees |-> S0,
                                     priceRanges |-> <<psNewPriceTier>>])
                        /\ pendingVendorId' = EmptyStr
                        /\ UNCHANGED <<inventorySettingsByVendor, toast>>
              ELSE IF vid \in VendorIds(inventorySettingsByVendor)
                   THEN /\ toast' = ErrorToast("Vendor already added to Inventory")
                        /\ UNCHANGED <<priceSettingsByVendor, inventorySettingsByVendor,
                                       pendingVendorId>>
                   ELSE /\ inventorySettingsByVendor' =
                             Append(inventorySettingsByVendor,
                                    [vendorId |-> vid, priceRanges |-> <<psNewInventoryTier>>])
                        /\ pendingVendorId' = EmptyStr
                        /\ UNCHANGED <<priceSettingsByVendor, toast>>
  /\ UNCHANGED <<storeInfo, request, page, formOnly, vvars, tvars, ovars, currentStep, activeTab>>

\* The Remove button of a vendor's card on the tab on screen.
removeVendor(tab, vendorId) ==
  /\ TabShown(tab)
  /\ IF tab = "price"
     THEN /\ vendorId \in VendorIds(priceSettingsByVendor)
          /\ priceSettingsByVendor' = RemoveVendor(priceSettingsByVendor, vendorId)
          /\ UNCHANGED inventorySettingsByVendor
     ELSE /\ vendorId \in VendorIds(inventorySettingsByVendor)
          /\ inventorySettingsByVendor' = RemoveVendor(inventorySettingsByVendor, vendorId)
          /\ UNCHANGED priceSettingsByVendor
  /\ UNCHANGED <<storeInfo, toast, request, page, formOnly, vvars, tvars, ovars, pvars>>

\* v.priceRanges.map((r, i) => i === idx ? { ...r, [field]: value } : r)
psUpdateRangeRows(ranges, idx, field, value) ==
  [i \in 1..Len(ranges) |-> IF i = idx THEN [ranges[i] EXCEPT ![field] = value] ELSE ranges[i]]

\* idx is a row of the table of vendorId in settings.
HasRow(settings, vendorId, idx) ==
  \E i \in 1..Len(settings) :
    settings[i].vendorId = vendorId /\ idx \in 1..Len(settings[i].priceRanges)

\* The table of vendorId in settings has room for one more row.
HasRoom(settings, vendorId) ==
  \E i \in 1..Len(settings) :
    settings[i].vendorId = vendorId /\ Len(settings[i].priceRanges) < MaxRanges

\* updatePriceRange of PriceSettings
psUpdatePriceRange(vendorId, idx, field, value) ==
  /\ TabShown("price")
  /\ HasRow(priceSettingsByVendor, vendorId, idx)
  /\ priceSettingsByVendor' =
       [i \in 1..Len(priceSettingsByVendor) |->
          IF priceSettingsByVendor[i].vendorId # vendorId THEN priceSettingsByVendor[i]
          ELSE LET v == priceSettingsByVendor[i]
               IN  [v EXCEPT !.priceRanges = psUpdateRangeRows(v.priceRanges, idx, field, value)]]
  /\ UNCHANGED <<storeInfo, inventorySettingsByVendor, toast, request, page, formOnly,
                 vvars, tvars, ovars, pvars>>

\* addPriceRange of PriceSettings
psAddPriceRange(vendorId) ==
  /\ TabShown("price")
  /\ HasRoom(priceSettingsByVendor, vendorId)
  /\ priceSettingsByVendor' =
       [i \in 1..Len(priceSettingsByVendor) |->
          IF priceSettingsByVendor[i].vendorId # vendorId THEN priceSettingsByVendor[i]
          ELSE LET v == priceSettingsByVendor[i]
               IN  [v EXCEPT !.priceRanges = Append(v.priceRanges, psNewPriceTier)]]
  /\ UNCHANGED <<storeInfo, inventorySettingsByVendor, toast, request, page, formOnly,
                 vvars, tvars, ovars, pvars>>

removePriceRange(vendorId, idx) ==
  /\ TabShown("price")
  /\ HasRow(priceSettingsByVendor, vendorId, idx)
  /\ priceSettingsByVendor' =
       [i \in 1..Len(priceSettingsByVendor) |->
          IF priceSettingsByVendor[i].vendorId # vendorId THEN priceSettingsByVendor[i]
          ELSE LET v == priceSettingsByVendor[i]
               IN  [v EXCEPT !.priceRanges = RemoveAt(v.priceRanges, idx)]]
  /\ UNCHANGED <<storeInfo, inventorySettingsByVendor, toast, request, page, formOnly,
                 vvars, tvars, ovars, pvars>>

\* updateInventoryRange of PriceSettings
psUpdateInventoryRange(vendorId, idx, field, value) ==
  /\ TabShown("inventory")
  /\ HasRow(inventorySettingsByVendor, vendorId, idx)
  /\ inventorySettingsByVendor' =
       [i \in 1..Len(inventorySettingsByVendor) |->
          IF inventorySettingsByVendor[i].vendorId # vendorId THEN inventorySettingsByVendor[i]
          ELSE LET v == inventorySettingsByVendor[i]
               IN  [v EXCEPT !.priceRanges = psUpdateRangeRows(v.priceRanges, idx, field, value)]]
  /\ UNCHANGED <<storeInfo, priceSettingsByVendor, toast, request, page, formOnly,
                 vvars, tvars, ovars, pvars>>

\* addInventoryRange of PriceSettings
psAddInventoryRange(vendorId) ==
  /\ TabShown("inventory")
  /\ HasRoom(inventorySettingsByVendor, vendorId)
  /\ inventorySettingsByVendor' =
       [i \in 1..Len(inventorySettingsByVendor) |->
          IF inventorySettingsByVendor[i].vendorId # vendorId THEN inventorySettingsByVendor[i]
          ELSE LET v == inventorySettingsByVendor[i]
               IN  [v EXCEPT !.priceRanges = Append(v.priceRanges, psNewInventoryTier)]]
  /\ UNCHANGED <<storeInfo, priceSettingsByVendor, toast, request, page, formOnly,
                 vvars, tvars, ovars, pvars>>

removeInventoryRange(vendorId, idx) ==
  /\ TabShown("inventory")
  /\ HasRow(inventorySettingsByVendor, vendorId, idx)
  /\ inventorySettingsByVendor' =
       [i \in 1..Len(inventorySettingsByVendor) |->
          IF inventorySettingsByVendor[i].vendorId # vendorId THEN inventorySettingsByVendor[i]
          ELSE LET v == inventorySettingsByVendor[i]
               IN  [v EXCEPT !.priceRanges = RemoveAt(v.priceRanges, idx)]]
  /\ UNCHANGED <<storeInfo, priceSettingsByVendor, toast, request, page, formOnly,
                 vvars, tvars, ovars, pvars>>

\* PriceSettings.validateRanges: the values its two loops can come to.
validateRanges(price, inventory) ==
  LET all == price \o inventory
  IN  { b \in BOOLEAN :
          IF b THEN \A i \in 1..Len(all) : TRUE \in psRangesAreContiguous(all[i].priceRanges)
               ELSE \E i \in 1..Len(all) : FALSE \in psRangesAreContiguous(all[i].priceRanges) }

\* The Create button of step 2, up to the await of the API call.
submit ==
  /\ WizardStep(2)
  /\ \E ok \in validateRanges(priceSettingsByVendor, inventorySettingsByVendor) :
       IF ok
       THEN request' = [state |-> "pending", method |-> "createStore", storeId |-> << >>,
                        storeInfo |-> storeInfo,
                        priceSettingsByVendor |-> priceSettingsByVendor,
                        inventorySettingsByVendor |-> inventorySettingsByVendor]
       ELSE UNCHANGED request
  /\ UNCHANGED <<storeInfo, priceSettingsByVendor, inventorySettingsByVendor, toast, page,
                 formOnly, vvars, tvars, ovars, pvars>>

\* submit after the await: the call resolved.
wizardSaved ==
  /\ request.state = "pending"
  /\ request' = [state |-> "resolved"]
  /\ toast' = SuccessToast("Store created")
  /\ page' = "/settings"
  /\ UNCHANGED <<storeInfo, priceSettingsByVendor, inventorySettingsByVendor, formOnly,
                 vvars, tvars, ovars, pvars>>

\* submit after the await: the call rejected.
wizardSaveFailed ==
  /\ request.state = "pending"
  /\ request' = [state |-> "rejected"]
  /\ toast' = ErrorToast("Failed to save store")
  /\ UNCHANGED <<storeInfo, priceSettingsByVendor, inventorySettingsByVendor, page, formOnly,
                 vvars, tvars, ovars, pvars>>

\* The arrow in the wizard's header.
wizardNavigateToSettings ==
  /\ page = "/create-store"
  /\ page' = "/settings"
  /\ UNCHANGED <<storeInfo, priceSettingsByVendor, inventorySettingsByVendor, toast, request,
                 formOnly, vvars, tvars, ovars, pvars>>

NextPS ==
  \/ Idle /\ \E field \in {"storeName", "marketplace"}, value \in TypedStoreFields :
               updateFormData(field, value)
  \/ Idle /\ handleNext
  \/ Idle /\ handleBack
  \/ Idle /\ \E tab \in {"price", "inventory"} : setActiveTab(tab)
  \/ Idle /\ \E id \in EditedVendors : setPendingVendorId(id)
  \/ Idle /\ addVendorToActiveTab
  \/ Idle /\ \E tab \in {"price", "inventory"}, id \in vendors : removeVendor(tab, id)
  \/ Idle /\ \E id \in vendors, idx \in 1..MaxRanges, field \in {"from", "to"},
                value \in TypedBounds : psUpdatePriceRange(id, idx, field, value)
  \/ Idle /\ \E id \in vendors : psAddPriceRange(id)
  \/ Idle /\ \E id \in vendors, idx \in 1..MaxRanges : removePriceRange(id, idx)
  \/ Idle /\ \E id \in vendors, idx \in 1..MaxRanges, field \in {"from", "to"},
                value \in TypedBounds : psUpdateInventoryRange(id, idx, field, value)
  \/ Idle /\ \E id \in vendors : psAddInventoryRange(id)
  \/ Idle /\ \E id \in vendors, idx \in 1..MaxRanges : removeInventoryRange(id, idx)
  \/ Idle /\ submit
  \/ wizardSaved
  \/ wizardSaveFailed
  \/ Idle /\ wizardNavigateToSettings

SpecPS == Init /\ [][NextPS]_vars

(***************************************************************************)
(* Properties of the validators.                                           *)
(***************************************************************************)
vRan == vWho # "none"
vAccepted == vRan /\ vResult
vPairs == 1..(Len(vOrder) - 1)
vUpper(i) == parseFloat(vOrder[i].to)
vNextLower(i) == parseFloat(vOrder[i + 1].from)

C4_RejectsDuplicateLowerBound ==
  (vRan /\ \E i, j \in 1..Len(vTiers) :
             i # j /\ NumEq(FromKey(vTiers[i]), FromKey(vTiers[j])))
    => ~vResult

\* C5 as stated: a validator run accepts a non-empty tier list only if its
\* smallest lower bound is exactly 0.
C5_AcceptedStartsAtZero ==
  (vAccepted /\ Len(vTiers) > 0)
    => /\ \E i \in 1..Len(vTiers) : NumEq(ParseOrZero(vTiers[i].from), Zero)
       /\ \A i \in 1..Len(vTiers) : ~NumLess(ParseOrZero(vTiers[i].from), Zero)

\* C6 as stated: a validator run accepts a tier list only if exactly one
\* tier has the open-ended upper bound and that tier is the last in sorted
\* order.
C6_AcceptedHasOneOpenLastTier ==
  vAccepted
    => /\ Len(vOrder) > 0
       /\ \A i \in 1..Len(vOrder) : IsOpen(vOrder[i].to) <=> i = Len(vOrder)

\* The non-negative values probed for totality.
Probes == {Zero, parseFloat(S1), parseFloat(S1eps), Plus100(Zero), Num(50, 0)}

\* C7 as stated: for every accepted tier list and every x >= 0, exactly one
\* tier contains x.
C7_AcceptedIsTotal ==
  vAccepted
    => \A x \in Probes : Cardinality({i \in 1..Len(vTiers) : contains(vTiers[i], x)}) = 1

\* C3 as stated: a validator run rejects the empty tier list.
C3_RejectsEmptyList == (vRan /\ Len(vTiers) = 0) => ~vResult

\* C3, through the wizard: a configuration that passed validateRanges and was
\* sent has no vendor with zero tiers.
C3_SentRuleSetsAreNonEmpty ==
  request.state = "pending"
    => /\ \A i \in 1..Len(request.priceSettingsByVendor) :
            Len(request.priceSettingsByVendor[i].priceRanges) > 0
       /\ \A i \in 1..Len(request.inventorySettingsByVendor) :
            Len(request.inventorySettingsByVendor[i].priceRanges) > 0

(***************************************************************************)
(* Properties of the store form.                                           *)
(***************************************************************************)
\* Every rule set of settings passes rangesAreContiguous.
EveryRuleSetPasses(settings) ==
  \A i \in 1..Len(settings) : TRUE \in rangesAreContiguous(settings[i].priceRanges)

\* Some rule set of settings fails rangesAreContiguous.
SomeRuleSetFails(settings) ==
  \E i \in 1..Len(settings) : FALSE \in rangesAreContiguous(settings[i].priceRanges)

\* C1 as stated: whenever handleSubmit has sent a configuration, every
\* vendor's price rule set and every vendor's inventory rule set in it passes
\* rangesAreContiguous.
C1_SentConfigurationPasses ==
  request.state = "pending"
    => /\ EveryRuleSetPasses(request.priceSettingsByVendor)
       /\ EveryRuleSetPasses(request.inventorySettingsByVendor)

PriceRangesError == ErrorToast("Price ranges must be contiguous and end with MAX")
InventoryRangesError == ErrorToast("Inventory ranges must be contiguous and end with MAX")

UniqueVendors(settings) ==
  \A i, j \in 1..Len(settings) : settings[i].vendorId = settings[j].vendorId => i = j

\* C9 as stated: priceSettingsByVendor and inventorySettingsByVendor hold at
\* most one entry per vendor id, also when handlers of a stale render run.
C9_VendorIdsAreUnique ==
  UniqueVendors(priceSettingsByVendor) /\ UniqueVendors(inventorySettingsByVendor)

\* The vendor chosen in a tab's select already has settings of the tab's kind.
PendingIsBound(pending, settings) ==
  pending # EmptyStr /\ parseInt(pending) \in VendorIds(settings)

\* C10: an add-vendor step taken while the chosen vendor already has settings
\* of that kind raises "Vendor already added" and leaves the settings of that
\* kind unchanged.
C10_AddBoundVendorFails ==
  [][ /\ (addPriceVendor(Closure)
            /\ PendingIsBound(pricePendingVendor, priceSettingsByVendor))
           => /\ toast' = ErrorToast("Vendor already added")
              /\ UNCHANGED priceSettingsByVendor
      /\ (addInventoryVendor(Closure)
            /\ PendingIsBound(inventoryPendingVendor, inventorySettingsByVendor))
           => /\ toast' = ErrorToast("Vendor already added")
              /\ UNCHANGED inventorySettingsByVendor
    ]_vars

\* C10 witness: the vendor chosen in the price tab's select got price settings
\* by a duplication, and the add button has answered "Vendor already added".
C10_Witness ==
  /\ activeStep = "price-settings"
  /\ PendingIsBound(pricePendingVendor, priceSettingsByVendor)
  /\ toast = ErrorToast("Vendor already added")

\* C10, in the wizard: addVendorToActiveTab with a chosen vendor that already
\* has settings of the active tab's kind raises the tab's error and leaves
\* both collections unchanged.
C10_WizardAddBoundVendorFails ==
  [][ (addVendorToActiveTab
         /\ PendingIsBound(pendingVendorId, IF activeTab = "price" THEN priceSettingsByVendor
                                            ELSE inventorySettingsByVendor))
        => /\ toast' = ErrorToast(IF activeTab = "price" THEN "Vendor already added to Price"
                                  ELSE "Vendor already added to Inventory")
           /\ UNCHANGED <<priceSettingsByVendor, inventorySettingsByVendor>>
    ]_vars

\* ---------------------------------------------------------------------------
\* Duplicate settings (MultiStepForm.jsx applyDuplicate), under SpecDuplicate.

\* What the Duplicate button of the modal on screen is about to work on.
DupSettings ==
  IF duplicateModal.type = "price" THEN priceSettingsByVendor
  ELSE inventorySettingsByVendor
DupFrom == parseInt(duplicateModal.fromVendorId)
DupTo == parseInt(duplicateModal.toVendorId)
\* The three guards of applyDuplicate pass.
DupRuns ==
  /\ ModalShown(Closure)
  /\ DupFrom # -1 /\ DupTo # -1
  /\ DupTo \in vendors
  /\ DupFrom \in VendorIds(DupSettings)
DupTargetBound == DupTo \in VendorIds(DupSettings)
DupPressed == \E proceed \in BOOLEAN : applyDuplicate(Closure, proceed)
DupDeclined == applyDuplicate(Closure, FALSE) /\ DupRuns /\ DupTargetBound

\* C11: a duplicate whose target already has a binding of the kind, with the
\* overwrite not confirmed, leaves every binding of both collections (tiers and
\* fees of the target included) exactly as before.
C11_DeclinedOverwriteChangesNothing ==
  [][DupDeclined => UNCHANGED <<priceSettingsByVendor, inventorySettingsByVendor>>]_vars

\* A price duplicate from vendor 1 to vendor 2 has ended, both are bound, and
\* vendor 2 does not hold the copy of vendor 1's tiers.
C11_Witness ==
  /\ toast = SuccessToast("Price settings duplicated")
  /\ ~duplicateModal.open /\ duplicateModal.type = "price"
  /\ DupFrom = 1 /\ DupTo = 2
  /\ {1, 2} \subseteq VendorIds(priceSettingsByVendor)
  /\ Find(priceSettingsByVendor, 2).priceRanges
       # PriceRangesCopy(Find(priceSettingsByVendor, 1).priceRanges)

\* C12: a duplicate whose target already has a binding of the kind, with the
\* overwrite not confirmed, does not report success to the user.
C12_DeclinedOverwriteReportsNoSuccess ==
  [][DupDeclined => toast'.kind # "success"]_vars

\* C13: a duplicate never changes the source binding, for every choice of
\* source and target, the source itself with a confirmed overwrite included.
C13_SourceBindingIsKept ==
  [][DupPressed /\ DupRuns
       => /\ DupFrom \in VendorIds(DupSettings')
          /\ Find(DupSettings', DupFrom) = Find(DupSettings, DupFrom)]_vars

DecodedTo(to) ==
  IF IsOpen(to) THEN [open |-> TRUE, value |-> Zero]
  ELSE [open |-> FALSE, value |-> OrZero(parseFloat(to))]
DecodedPriceTier(r) ==
  [from |-> ApiPriceRange(r).from_value, to |-> DecodedTo(r.to),
   margin |-> ApiPriceRange(r).margin_percentage,
   minimumMargin |-> ApiPriceRange(r).minimum_margin_cents]
DecodedInventoryTier(r) ==
  [from |-> ApiInventoryRange(r).from_value, to |-> DecodedTo(r.to),
   multiplier |-> ApiInventoryRange(r).multiplier]
DecodedTiers(type, ranges) ==
  [i \in 1..Len(ranges) |->
     IF type = "price" THEN DecodedPriceTier(ranges[i]) ELSE DecodedInventoryTier(ranges[i])]
DupDone == applyDuplicate(Closure, TRUE) /\ DupRuns

\* C15: after a successful duplicate the target's tier list has the source's
\* number of tiers in the source's order, each decoding to the same bounds and
\* payload; for price settings the target's purchase tax and marketplace fees
\* are the source's when copyFees is set, and otherwise an existing target keeps
\* its own fees and a new target has empty fees.
C15_TargetHoldsTheSourceTiers ==
  [][DupDone
       => LET source == Find(DupSettings, DupFrom)
              target == Find(DupSettings', DupTo)
          IN  /\ DupTo \in VendorIds(DupSettings')
              /\ DecodedTiers(duplicateModal.type, target.priceRanges)
                   = DecodedTiers(duplicateModal.type, source.priceRanges)
              /\ duplicateModal.type = "price"
                   => IF duplicateModal.copyFees
                      THEN /\ target.purchaseTax = source.purchaseTax
                           /\ target.marketplaceFees = source.marketplaceFees
                      ELSE IF DupTargetBound
                      THEN /\ target.purchaseTax = Find(DupSettings, DupTo).purchaseTax
                           /\ target.marketplaceFees
                                = Find(DupSettings, DupTo).marketplaceFees
                      ELSE /\ target.purchaseTax = EmptyStr
                           /\ target.marketplaceFees = EmptyStr]_vars

\* Vendor 1's two price tiers, the first starting at 5, and its purchase tax
\* were duplicated to vendor 2 with the fees.
C15_Witness ==
  /\ toast = SuccessToast("Price settings duplicated")
  /\ ~duplicateModal.open /\ duplicateModal.type = "price" /\ duplicateModal.copyFees
  /\ DupFrom = 1 /\ DupTo = 2
  /\ {1, 2} \subseteq VendorIds(priceSettingsByVendor)
  /\ LET source == Find(priceSettingsByVendor, 1)
         target == Find(priceSettingsByVendor, 2)
     IN  /\ Len(source.priceRanges) = 2
         /\ source.priceRanges[1].from = <<"5">>
         /\ source.purchaseTax # EmptyStr
         /\ target.priceRanges = PriceRangesCopy(source.priceRanges)
         /\ target.purchaseTax = source.purchaseTax

\* C16: a duplicate never creates or overwrites a target with a tier list that
\* rangesAreContiguous rejects, a source that is an edited draft included.
C16_DuplicatedTiersPass ==
  [][DupDone
       => /\ DupTo \in VendorIds(DupSettings')
          /\ FALSE \notin rangesAreContiguous(Find(DupSettings', DupTo).priceRanges)]_vars

\* ---------------------------------------------------------------------------
\* The conversions of services/api.js, under SpecTransform.

\* s is a non-negative decimal: digits with at most one point.
IsDecimal(s) ==
  LET ip == TakeDigits(s)
      rest == SubSeq(s, Len(ip) + 1, Len(s))
  IN  IF rest = << >> THEN ip # << >>
      ELSE /\ Head(rest) = "."
           /\ Len(TakeDigits(Tail(rest))) = Len(rest) - 1
           /\ Len(s) > 1

\* Math.round(x * 100) of a finite x
RoundCents(x) == Num((x.h + (IF 2 * x.t >= TMod THEN 1 ELSE 0)) * 100, 0)

\* C17: the minimum margin typed as a non-negative decimal of major units is
\* sent as round(value * 100) minor units ("12.50" as 1250, "0.99" as 99).
C17_MinimumMarginIsRoundedToCents ==
  tStage = "sent" =>
    \A i \in 1..Len(tForm.priceSettingsByVendor) :
      \A j \in 1..Len(tForm.priceSettingsByVendor[i].priceRanges) :
        LET typed == tForm.priceSettingsByVendor[i].priceRanges[j].minimumMargin
            sent == tSent.price_settings_by_vendor[i].price_ranges[j].minimum_margin_cents
        IN  IsDecimal(typed) => sent = RoundCents(parseFloat(typed))

\* C18: a stored store converted for the form and converted back has the
\* stored vendor ids and fees and, tier by tier, the stored from_value,
\* to_value, margin_percentage, minimum_margin_cents and multiplier.
C18_StoredDataSurvivesTheForm ==
  tStage = "resent" =>
    /\ tSent.price_settings_by_vendor = tStored.price_settings_by_vendor
    /\ tSent.inventory_settings_by_vendor = tStored.inventory_settings_by_vendor

\* C19: an upper bound is sent as the open-ended sentinel exactly when it is
\* MAX after trimming and ignoring case ("max" and " MAX " included).
C19_SentinelIgnoresCaseAndSpace ==
  tStage = "sent" =>
    \A i \in 1..Len(tForm.priceSettingsByVendor) :
      \A j \in 1..Len(tForm.priceSettingsByVendor[i].priceRanges) :
        (tSent.price_settings_by_vendor[i].price_ranges[j].to_value = SMAX)
          <=> IsOpen(tForm.priceSettingsByVendor[i].priceRanges[j].to)

\* C20: the store data sent has the form's number of vendors and of tiers, and
\* every from_value, margin_percentage, minimum_margin_cents, multiplier and fee
\* in it is a finite number.
C20_SentNumbersAreFinite ==
  tStage = "sent" =>
    /\ Len(tSent.price_settings_by_vendor) = Len(tForm.priceSettingsByVendor)
    /\ Len(tSent.inventory_settings_by_vendor) = Len(tForm.inventorySettingsByVendor)
    /\ \A i \in 1..Len(tSent.price_settings_by_vendor) :
         LET st == tSent.price_settings_by_vendor[i]
         IN  /\ isFinite(st.purchase_tax_percentage)
             /\ isFinite(st.marketplace_fees_percentage)
             /\ Len(st.price_ranges) = Len(tForm.priceSettingsByVendor[i].priceRanges)
             /\ \A j \in 1..Len(st.price_ranges) :
                  /\ isFinite(st.price_ranges[j].from_value)
                  /\ isFinite(st.price_ranges[j].margin_percentage)
                  /\ isFinite(st.price_ranges[j].minimum_margin_cents)
    /\ \A i \in 1..Len(tSent.inventory_settings_by_vendor) :
         LET st == tSent.inventory_settings_by_vendor[i]
         IN  /\ Len(st.inventory_ranges) = Len(tForm.inventorySettingsByVendor[i].priceRanges)
             /\ \A j \in 1..Len(st.inventory_ranges) :
                  /\ isFinite(st.inventory_ranges[j].from_value)
                  /\ isFinite(st.inventory_ranges[j].multiplier)

\* ---------------------------------------------------------------------------
\* The rows of a vendor's table (MultiStepForm.jsx 86-130), under SpecRows.

\* C21: a margin typed with a leading minus sign is stored in the tier with its
\* sign and is sent as a negative margin_percentage.
C21_SignedMarginIsStored ==
  [][\A id \in vendors, value \in TypedCells :
       updatePriceRange(Closure, id, 1, "margin", value)
         => LET r == Find(priceSettingsByVendor', id).priceRanges[1]
            IN  /\ r.margin = value
                /\ ApiPriceRange(r).margin_percentage = OrZero(parseFloat(value))]_vars

\* The last row of the list, in array order, is the only one whose to is MAX.
LastRowOpen(ranges) ==
  /\ ranges # << >>
  /\ \A i \in 1..Len(ranges) : (ranges[i].to = SMAX) <=> (i = Len(ranges))

\* C24: every binding of both kinds keeps a non-empty tier list whose last row
\* has to = "MAX" and whose other rows do not, through add-vendor, add-range,
\* remove-row, duplicate and field edits.
C24_LastRowStaysOpen ==
  /\ \A i \in 1..Len(priceSettingsByVendor) :
       LastRowOpen(priceSettingsByVendor[i].priceRanges)
  /\ \A i \in 1..Len(inventorySettingsByVendor) :
       LastRowOpen(inventorySettingsByVendor[i].priceRanges)

\* The list passes rangesAreContiguous and ends, in array order, with the MAX row.
ValidOpen(ranges) ==
  /\ ranges # << >>
  /\ rangesAreContiguous(ranges) = {TRUE}
  /\ ranges[Len(ranges)].to = SMAX

\* new is old with its last row closed at from + 100 and a MAX row from there.
RangeAdded(old, new) ==
  LET n == Len(old)
      from == FromKey(old[n])
  IN  /\ Len(new) = n + 1
      /\ \A i \in 1..(n - 1) : new[i] = old[i]
      /\ rangesAreContiguous(new) = {TRUE}
      /\ FromKey(new[n]) = from
      /\ parseFloat(new[n].to) = Plus100(from)
      /\ parseFloat(new[n + 1].from) = Plus100(from)
      /\ new[n + 1].to = SMAX

Priced == eResult # NoData /\ eResult.error = "none"

\* C22 as stated: the sell price returned, rounded to 2 decimals, leaves a
\* profit (price minus costWithTax) not below the matched tier's
\* minimumMarginMinorUnits, and where the percentage-implied profit is below
\* the floor the price is costWithTax + minimumMarginMinorUnits/100.
C22_ProfitIsNotBelowTheFloor ==
  Priced
    => /\ eResult.sellPrice * 100 - eResult.costWithTax
            >= eResult.tier.minimumMarginMinorUnits * 100
       /\ eResult.floored
            => eResult.sellPrice * 100
                 = eResult.costWithTax + eResult.tier.minimumMarginMinorUnits * 100


(***************************************************************************)
(* The order of the tiers sent.                                            *)
(***************************************************************************)
\* the argument of createStore / updateStore (MultiStepForm.jsx 212)
SentStoreData ==
  transformStoreDataForAPI(request.storeInfo, request.priceSettingsByVendor,
                           request.inventorySettingsByVendor)

\* ascending by from_value
SortedByFromValue(ranges) ==
  \A i \in 1..Len(ranges), j \in 1..Len(ranges) :
    i < j => ~NumLess(ranges[j].from_value, ranges[i].from_value)

\* C23 as stated: once the validation passed, the price_ranges and
\* inventory_ranges arrays sent to the backend are sorted ascending by
\* from_value, whatever the order of the rows in the form state.
C23_SentRangesAreSorted ==
  request.state = "pending"
    => /\ \A i \in 1..Len(SentStoreData.price_settings_by_vendor) :
            SortedByFromValue(SentStoreData.price_settings_by_vendor[i].price_ranges)
       /\ \A i \in 1..Len(SentStoreData.inventory_settings_by_vendor) :
            SortedByFromValue(SentStoreData.inventory_settings_by_vendor[i].inventory_ranges)


(***************************************************************************)
(* The frame of the operations on the bindings.                            *)
(***************************************************************************)
\* the bindings of the vendors other than id
Others(settings, id) == SelectSeq(settings, LAMBDA v : v.vendorId # id)

\* a step on vendor id's price binding
FramePrice(id) ==
  /\ Others(priceSettingsByVendor', id) = Others(priceSettingsByVendor, id)
  /\ inventorySettingsByVendor' = inventorySettingsByVendor

\* a step on vendor id's inventory binding
FrameInventory(id) ==
  /\ Others(inventorySettingsByVendor', id) = Others(inventorySettingsByVendor, id)
  /\ priceSettingsByVendor' = priceSettingsByVendor

C27_SettledListKeepsEveryChange ==
  calls = << >>
    => \A id \in StoreIds :
         /\ outcomes[id].deleted => ~RowShown(id)
         /\ (outcomes[id].toggled /\ ~outcomes[id].deleted)
              => \E i \in 1..Len(stores) :
                   stores[i].id = id /\ stores[i].is_active = outcomes[id].is_active


\* the calls in flight for store id
CallsFor(id) == {k \in 1..Len(calls) : calls[k].id = id}

\* C28: while a toggle or delete request of a store is in flight the store's
\* id is in togglingIds or deletingIds (the set of its kind), which disables
\* the row's switch, edit, delete and duplicate controls; no store has two
\* requests in flight; an id in either set has a request in flight, so both
\* sets are empty when none is.
C28_InFlightStoresAreDisabled ==
  /\ \A k \in 1..Len(calls) :
       IF calls[k].kind = "setStoreActive" THEN calls[k].id \in togglingIds
       ELSE calls[k].id \in deletingIds
  /\ \A id \in StoreIds : Cardinality(CallsFor(id)) <= 1
  /\ \A id \in togglingIds \cup deletingIds : CallsFor(id) # {}
  /\ calls = << >> => togglingIds = {} /\ deletingIds = {}

\* A toggle and a delete of two stores are in flight, after an earlier request
\* has settled.
C28_Witness ==
  /\ togglingIds # {}
  /\ deletingIds # {}
  /\ \E id \in StoreIds : outcomes[id].toggled


(***************************************************************************)
(* Saving the form.                                                        *)
(***************************************************************************)
\* C29: loading is true exactly while the createStore / updateStore call of
\* handleSubmit is awaited (false again after a failed validation, a
\* resolved and a rejected call); a pending call is never joined or replaced
\* by a second one; handleSubmit leaves the form for the store list only when
\* the call resolved; a rejected call leaves the form state as it is.
C29_SubmitHoldsLoadingUntilSettled ==
  [][/\ loading' <=> request'.state = "pending"
     /\ (request.state = "pending" /\ request' # request)
          => request'.state \in {"resolved", "rejected"}
     /\ (handleSubmit(Closure) /\ request' = request)
          => toast'.kind = "error" /\ page' = page
     /\ storeSaved => page' = "/settings"
     /\ storeSaveFailed
          => /\ page' = page
             /\ UNCHANGED <<storeInfo, priceSettingsByVendor, inventorySettingsByVendor>>
     /\ page' # page => storeSaved \/ navigateToSettings]_vars

\* The call was rejected: the form is still shown, the button is enabled again.
C29_Witness ==
  /\ request.state = "rejected"
  /\ ~loading
  /\ page = "/create-store"
  /\ toast.kind = "error"


(***************************************************************************)
(* The bulk-upload page.                                                   *)
(***************************************************************************)
\* C30 as stated: deletingUploadId names every upload whose delete request is
\* in flight, so no upload has two delete requests in flight.
C30_DeletingUploadIdNamesEveryDelete ==
  /\ \A k \in 1..Len(deletes) : deletingUploadId = deletes[k]
  /\ \A id \in UploadIds : Cardinality({k \in 1..Len(deletes) : deletes[k] = id}) <= 1

====
